---- MODULE Spec2Model ----
(***************************************************************************)
(* The bidirectional JSON codec library of commit-tools: the Decoder       *)
(* combinators (libs/json/decoder), the Encoder combinators                *)
(* (libs/json/encoder) and the Schema layer with discriminated unions      *)
(* (libs/json/schema).                                                     *)
(*                                                                         *)
(* Decoders, encoders and schemas are modelled as syntax trees (records    *)
(* with a kind field k); Run and Enc interpret them exactly as the         *)
(* closures built by the combinators run.  JavaScript values are tagged    *)
(* records (field t); a thrown exception is the outcome "Throw".           *)
(***************************************************************************)
EXTENDS Integers, Sequences, FiniteSets, TLC

\* ------------------------------------------------------------------ bounds

\* Numbers of the inputs are 0..MaxNum.
MaxNum == 1
\* Arrays of the inputs have at most MaxArr elements.
MaxArr == 2
\* The call stack holds at most MaxStack nested runs of a recursive decoder or
\* encoder; the inputs are nested less deeply.
MaxStack == 3

\* ------------------------------------------------------- JavaScript values

JNull == [t |-> "null"]
JUndef == [t |-> "undefined"]
JStr(s) == [t |-> "string", s |-> s]
JNum(n) == [t |-> "number", n |-> n]
\* The numbers that are not finite: NaN, Infinity and -Infinity.
NonFinite(name) == [t |-> "number", nonFinite |-> name]
IsNonFinite(v) == v.t = "number" /\ "nonFinite" \in DOMAIN v
JBool(b) == [t |-> "boolean", b |-> b]
JArr(e) == [t |-> "array", e |-> e]
JObj(m) == [t |-> "object", m |-> m]

\* The object with no keys, and objects with one and two keys.
NoKeys == [key \in {} |-> JNull]
Obj1(k1, v1) == JObj([key \in {k1} |-> v1])
Obj2(k1, v1, k2, v2) == JObj([key \in {k1, k2} |-> IF key = k1 THEN v1 ELSE v2])
EmptyObj == JObj(NoKeys)

\* Maybe<T>: Just(v) | Nothing().
Just(v) == [t |-> "Just", value |-> v]
Nothing == [t |-> "Nothing"]

\* typeof v: null and arrays are "object".
TypeOf(v) ==
  CASE v.t \in {"null", "array", "object", "Just", "Nothing"} -> "object"
    [] OTHER -> v.t

Digit(d) ==
  CASE d = 0 -> "0" [] d = 1 -> "1" [] d = 2 -> "2" [] d = 3 -> "3" [] d = 4 -> "4"
    [] d = 5 -> "5" [] d = 6 -> "6" [] d = 7 -> "7" [] d = 8 -> "8" [] d = 9 -> "9"

RECURSIVE NatToStr(_)
NatToStr(n) == IF n < 10 THEN Digit(n) ELSE NatToStr(n \div 10) \o Digit(n % 10)

\* The elements of an array under the names of their indices.
IndexOf(v, field) == {i \in 1..Len(v.e) : NatToStr(i - 1) = field}

\* obj[field] for a field name that is not a name of Object.prototype: an own
\* property, an element or the length of an array, or undefined.
Get(v, field) ==
  CASE v.t = "object" -> IF field \in DOMAIN v.m THEN v.m[field] ELSE JUndef
    [] v.t = "array" ->
         IF field = "length" THEN JNum(Len(v.e))
         ELSE IF IndexOf(v, field) # {} THEN v.e[CHOOSE i \in IndexOf(v, field) : TRUE]
         ELSE JUndef
    [] v.t = "Just" -> IF field = "value" THEN v.value ELSE JUndef
    [] OTHER -> JUndef

\* key in val, for a val whose typeof is "object" and is not null.
HasKey(v, field) ==
  CASE v.t = "object" -> field \in DOMAIN v.m
    [] v.t = "array" -> field = "length" \/ IndexOf(v, field) # {}
    [] v.t = "Just" -> field = "value"
    [] OTHER -> FALSE

\* The string conversion of a template literal around v: [ok, s], ok = FALSE when
\* the conversion throws a TypeError.  A plain object converts by its toString
\* method; a JSON object that has an own key "toString" holds a value that is
\* not callable there, valueOf returns the object itself, and the conversion
\* throws.  An array joins the conversions of its elements with ",", null and
\* undefined elements giving "".
Str(s) == [ok |-> TRUE, s |-> s]
StrThrows == [ok |-> FALSE, s |-> "TypeError: Cannot convert object to primitive value"]

RECURSIVE ToStr(_)
RECURSIVE JoinElems(_, _)
JoinElems(e, i) ==
  IF i > Len(e) THEN Str("")
  ELSE LET head == IF e[i].t \in {"null", "undefined"} THEN Str("") ELSE ToStr(e[i])
           rest == JoinElems(e, i + 1)
       IN IF ~head.ok THEN head
          ELSE IF ~rest.ok THEN rest
          ELSE Str(head.s \o (IF i < Len(e) THEN "," ELSE "") \o rest.s)

ToStr(v) ==
  CASE v.t = "null" -> Str("null")
    [] v.t = "undefined" -> Str("undefined")
    [] v.t = "string" -> Str(v.s)
    [] v.t = "number" -> Str(IF IsNonFinite(v) THEN v.nonFinite ELSE NatToStr(v.n))
    [] v.t = "boolean" -> Str(IF v.b THEN "true" ELSE "false")
    [] v.t = "array" -> JoinElems(v.e, 1)
    [] v.t = "object" -> IF "toString" \in DOMAIN v.m THEN StrThrows ELSE Str("[object Object]")
    [] v.t = "Nothing" -> Str("Nothing()")
    [] v.t = "Just" -> LET inner == ToStr(v.value)
                       IN IF inner.ok THEN Str("Just(" \o inner.s \o ")") ELSE inner

\* ---------------------------------------------------------------- results

\* DecodeResult<T> = Result<[Path, string], T>; a thrown exception is Throw.
Success(v) == [r |-> "Success", value |-> v]
Failure(path, msg) == [r |-> "Failure", path |-> path, msg |-> msg]
Throw(err) == [r |-> "Throw", error |-> err]

\* failure(msg): a failure with the empty path.
failure(msg) == Failure(<<>>, msg)

\* Array.prototype.join over strings.
RECURSIVE Join(_, _)
Join(strs, sep) ==
  IF Len(strs) = 0 THEN ""
  ELSE IF Len(strs) = 1 THEN strs[1]
  ELSE strs[1] \o sep \o Join(Tail(strs), sep)

RECURSIVE Reverse(_)
Reverse(q) == IF q = <<>> THEN <<>> ELSE Append(Reverse(Tail(q)), Head(q))

\* showPath with the path rendered innermost field first.
showPathInnermostFirst(path, error) ==
  error \o ". When parsing: " \o Join(Reverse(path), ".")

\* showPath([path, error]): the rendering of a failure by the decode entry point.
showPath(path, error) == error \o ". When parsing: " \o Join(path, ".")

\* --------------------------------------------------------------- decoders

\* Decoder syntax trees, one constructor per combinator of the library.
D_string == [k |-> "string"]
D_number == [k |-> "number"]
D_boolean == [k |-> "boolean"]
D_any == [k |-> "any"]
D_nullP == [k |-> "nullP"]
D_undefinedP == [k |-> "undefinedP"]
D_fail(msg) == [k |-> "fail", msg |-> msg]
D_always(v) == [k |-> "always", v |-> v]
D_stringLiteral(str) == [k |-> "stringLiteral", str |-> str]
D_array(decodeValue) == [k |-> "array", d |-> decodeValue]
\* decoders: the field definitions in declaration order, <<[name, d], ...>>
D_object(decoders) == [k |-> "object", fields |-> decoders]
D_objectMap(decoder) == [k |-> "objectMap", d |-> decoder]
D_pair(ldecode, rdecode) == [k |-> "pair", l |-> ldecode, r |-> rdecode]
D_triple(pA, pB, pC) == [k |-> "triple", a |-> pA, b |-> pB, c |-> pC]
D_oneOf(decoders) == [k |-> "oneOf", ds |-> decoders]
\* Decoder.map(f), f one of the functions the library maps with (ApplyFn).
D_map(d, f) == [k |-> "map", d |-> d, f |-> f]
D_stringified(inner) == [k |-> "stringified", d |-> inner]
\* decoder.chain(f), f one of the functions below.
D_chain(d, f) == [k |-> "chain", d |-> d, f |-> f]
\* The placeholder of recursive(f), after recursive() has patched its run,
\* where the call stack has room for frames more runs of it.
D_base(name, frames) == [k |-> "recursive", name |-> name, frames |-> frames]

Field(name, d) == [name |-> name, d |-> d]

\* The functions given to Decoder.map by maybe and the optional flavors.
FnToNothing == [f |-> "toNothing"]
FnJustOfJust == [f |-> "justOfJust"]
FnAsNullable == [f |-> "asNullable"]
FnOrUndefined == [f |-> "orUndefined"]
FnWithDefault(def) == [f |-> "withDefault", def |-> def]

ApplyFn(f, v) ==
  CASE f.f = "toNothing" -> Nothing
    [] f.f = "justOfJust" -> Just(Get(v, "just"))
    [] f.f = "asNullable" -> IF v.t = "Nothing" THEN JNull ELSE v.value
    [] f.f = "orUndefined" -> IF v.t = "Nothing" THEN JUndef ELSE v.value
    [] f.f = "withDefault" -> IF v.t = "Nothing" THEN f.def ELSE v.value

\* maybe(decoder): the explicit wire protocol {nothing: {}} | {just: V}.
D_maybe(decoder) ==
  D_oneOf(<<D_map(D_object(<<Field("nothing", D_object(<<>>))>>), FnToNothing),
            D_map(D_object(<<Field("just", decoder)>>), FnJustOfJust)>>)

D_nullable(decoder) == D_oneOf(<<D_nullP, decoder>>)

D_stringEnum(strs) == D_oneOf([i \in 1..Len(strs) |-> D_stringLiteral(strs[i])])

\* class DecoderOptional: the marker of a field that may be absent.
DecoderOptional(decoder) == [k |-> "DecoderOptional", decoder |-> decoder]
DecoderOptional_from(d) == DecoderOptional(D_maybe(d))
DecoderOptional_map(o, f) == DecoderOptional(D_map(o.decoder, f))

D_optionalMaybe(decoder) == DecoderOptional_from(decoder)
D_optionalNullable(decoder) == DecoderOptional_map(D_optionalMaybe(decoder), FnAsNullable)
D_optional(decoder) == DecoderOptional_map(D_optionalMaybe(decoder), FnOrUndefined)
\* An optionalDefault that leaves an absent field undefined.
D_optionalDefaultIgnoresDef(def, decoder) == D_optional(decoder)

D_optionalDefault(def, decoder) == DecoderOptional_map(D_optionalMaybe(decoder), FnWithDefault(def))

\* json = recursive((json) => oneOf([nullP, string, number, boolean, array(json), objectMap(json)]))
D_jsonWithin(frames) ==
  D_oneOf(<<D_nullP, D_string, D_number, D_boolean,
            D_array(D_base("json", frames)), D_objectMap(D_base("json", frames))>>)
D_json == D_jsonWithin(MaxStack)

\* recursive((tree) => oneOf([stringLiteral("x"), array(tree)]))
D_treeWithin(frames) ==
  D_oneOf(<<D_stringLiteral("x"), D_array(D_base("tree", frames))>>)
D_tree == D_treeWithin(MaxStack)

\* --------------------------------------------------------------- encoders

\* Encoder syntax trees.  toAny() is the encoder of json, boolean and string.
E_toAny == [k |-> "toAny"]
E_json == E_toAny
E_boolean == E_toAny
E_string == E_toAny
E_number == [k |-> "number"]
E_array(encoder) == [k |-> "array", e |-> encoder]
\* encoders: the field definitions in declaration order, <<[name, e], ...>>
E_object(encoders) == [k |-> "object", fields |-> encoders]
E_pair(sleft, sright) == [k |-> "pair", l |-> sleft, r |-> sright]
E_triple(sA, sB, sC) == [k |-> "triple", a |-> sA, b |-> sB, c |-> sC]
E_maybe(encoder) == [k |-> "maybe", e |-> encoder]
E_nullable(encoder) == [k |-> "nullable", e |-> encoder]
\* Encoder.rmap(f), f one of the functions the library maps with (ApplyRFn).
E_rmap(e, f) == [k |-> "rmap", e |-> e, f |-> f]
\* oneOf(f), f the selector of discriminatedUnion over the variants vars.
E_oneOf(vars) == [k |-> "oneOf", vars |-> vars]
E_base(name, frames) == [k |-> "recursive", name |-> name, frames |-> frames]
\* The run of the placeholder of recursive(f) before recursive() patches it.
E_unpatched == [k |-> "unpatched"]

EField(name, e) == [name |-> name, e |-> e]

\* The functions given to Encoder.rmap.
RFnOptional == [f |-> "optional"]
RFnOptionalNullable == [f |-> "optionalNullable"]
RFnStringEnum(strs) == [f |-> "stringEnum", strs |-> strs]
RFnStringLiteral(str) == [f |-> "stringLiteral", str |-> str]

\* class EncoderOptional: the marker of a field omitted when it is Nothing.
EncoderOptional(encoder) == [k |-> "EncoderOptional", encoder |-> encoder]
EncoderOptional_from(e) == EncoderOptional(e)
EncoderOptional_rmap(o, f) == EncoderOptional(E_rmap(o.encoder, f))

E_optionalMaybe(encoder) == EncoderOptional_from(E_maybe(encoder))
E_optionalNullable(encoder) == EncoderOptional_rmap(E_optionalMaybe(encoder), RFnOptionalNullable)
E_optional(encoder) == EncoderOptional_rmap(E_optionalMaybe(encoder), RFnOptional)
E_stringEnum(strs) == E_rmap(E_string, RFnStringEnum(strs))

\* ---------------------------------------------------------------- schemas

\* class Schema: the pair of a decoder and an encoder.
Schema(decoder, encoder) == [decoder |-> decoder, encoder |-> encoder]
\* class SchemaOptional: the pair of a DecoderOptional and an EncoderOptional.
SchemaOptional(decoder, encoder) == [decoder |-> decoder, encoder |-> encoder]

S_json == Schema(D_json, E_json)
S_boolean == Schema(D_boolean, E_boolean)
S_number == Schema(D_number, E_number)
S_string == Schema(D_string, E_string)
S_array(schema) == Schema(D_array(schema.decoder), E_array(schema.encoder))

S_optional(s) == SchemaOptional(D_optional(s.decoder), E_optional(s.encoder))
S_optionalNullable(schema) ==
  SchemaOptional(D_optionalNullable(schema.decoder), E_optionalNullable(schema.encoder))
S_optionalMaybe(schema) ==
  SchemaOptional(D_optionalMaybe(schema.decoder), E_optionalMaybe(schema.encoder))
\* When decoding, an absent field takes the default; when encoding, the field
\* is encoded by E.optional.
S_optionalDefault(def, schema) ==
  SchemaOptional(D_optionalDefault(def, schema.decoder), E_optional(schema.encoder))

\* def: the field definitions in declaration order, <<[name, schema], ...>>
SField(name, schema) == [name |-> name, schema |-> schema]

S_object(def) ==
  Schema(D_object([i \in 1..Len(def) |-> Field(def[i].name, def[i].schema.decoder)]),
         E_object([i \in 1..Len(def) |-> EField(def[i].name, def[i].schema.encoder)]))

S_pair(l, r) == Schema(D_pair(l.decoder, r.decoder), E_pair(l.encoder, r.encoder))
S_triple(a, b, c) ==
  Schema(D_triple(a.decoder, b.decoder, c.decoder), E_triple(a.encoder, b.encoder, c.encoder))
S_maybe(s) == Schema(D_maybe(s.decoder), E_maybe(s.encoder))
S_nullable(s) == Schema(D_nullable(s.decoder), E_nullable(s.encoder))
S_stringLiteral(str) == Schema(D_stringLiteral(str), E_rmap(E_string, RFnStringLiteral(str)))
S_stringEnum(strs) == Schema(D_stringEnum(strs), E_stringEnum(strs))

\* class Variant: the pattern, <<[key, str], ...>>, and the schema of one option.
Variant(pattern, schema) == [r |-> "Variant", pattern |-> pattern, schema |-> schema]

\* A field of a variant definition: a literal string (a discriminant) or a schema.
Lit(name, str) == [name |-> name, isLit |-> TRUE, str |-> str]
Sub(name, schema) == [name |-> name, isLit |-> FALSE, schema |-> schema]

\* filterMap(def, (_, v) => typeof v == "string" ? v : undefined)
RECURSIVE variantPattern(_)
variantPattern(def) ==
  IF def = <<>> THEN <<>>
  ELSE (IF Head(def).isLit THEN <<[key |-> Head(def).name, str |-> Head(def).str]>> ELSE <<>>)
       \o variantPattern(Tail(def))

\* mapValues(def, (_, value) => typeof value == "string" ? stringLiteral(value) : value)
variantSchemaDef(def) ==
  [i \in 1..Len(def) |->
     SField(def[i].name, IF def[i].isLit THEN S_stringLiteral(def[i].str) ELSE def[i].schema)]

\* A variant built without the check for a discriminant.
variantUnchecked(def) == Variant(variantPattern(def), S_object(variantSchemaDef(def)))

variant(def) ==
  IF Len(variantPattern(def)) = 0
  THEN Throw("Invalid variant definition. No discriminant identified. Discriminant must be provided as a string")
  ELSE Variant(variantPattern(def), S_object(variantSchemaDef(def)))

S_discriminatedUnion(vars) ==
  Schema(D_oneOf([i \in 1..Len(vars) |-> vars[i].schema.decoder]), E_oneOf(vars))

\* The placeholder schema of recursive(f), after recursive() has patched it.
S_base(name, frames) == Schema(D_base(name, frames), E_base(name, frames))

\* A recursive list of numbers, as a schema author writes it:
\* recursive((self) => nullable(pair(number, self)))
S_numberListWithin(frames) == S_nullable(S_pair(S_number, S_base("numberList", frames)))
S_numberList == S_numberListWithin(MaxStack)

\* A schema whose placeholder is run on the very input of the schema:
\* recursive((self) => nullable(self))
S_nullableSelfWithin(frames) == S_nullable(S_base("nullableSelf", frames))
S_nullableSelf == S_nullableSelfWithin(MaxStack)

\* What the run of a patched placeholder delegates to: the run of the decoder
\* (encoder) that f returned, on a call stack one frame deeper.
D_top(name, frames) ==
  CASE name = "json" -> D_jsonWithin(frames)
    [] name = "tree" -> D_treeWithin(frames)
    [] name = "numberList" -> S_numberListWithin(frames).decoder
    [] name = "nullableSelf" -> S_nullableSelfWithin(frames).decoder

E_top(name, frames) ==
  CASE name = "numberList" -> S_numberListWithin(frames).encoder
    [] name = "nullableSelf" -> S_nullableSelfWithin(frames).encoder

\* What the engine throws when the call stack is exhausted.
RangeError == Throw("RangeError: Maximum call stack size exceeded")

\* ------------------------------------------------------ running a decoder

RECURSIVE Run(_, _)

\* No return yet: the loop of object / oneOf goes on.
NoRet == [r |-> "none"]

Put(m, key, v) == [x \in DOMAIN m \cup {key} |-> IF x = key THEN v ELSE m[x]]

\* The characters of a string: of the strings of more than one character
\* under check, by table.
Chars(s) ==
  CASE s = "two" -> <<"t", "w", "o">>
    [] s = "not json" -> <<"n", "o", "t", " ", "j", "s", "o", "n">>
    [] s = "null" -> <<"n", "u", "l", "l">>
    [] s = "true" -> <<"t", "r", "u", "e">>
    [] s = "12" -> <<"1", "2">>
    [] s = "01" -> <<"0", "1">>
    [] s = "1x" -> <<"1", "x">>
    [] s = "[]" -> <<"[", "]">>
    [] s = "{}" -> <<"{", "}">>
    [] s = "[1]" -> <<"[", "1", "]">>
    [] s = "[1,]" -> <<"[", "1", ",", "]">>
    [] s = "[1,\"x\"]" -> <<"[", "1", ",", "\"", "x", "\"", "]">>
    [] s = "\"x\"" -> <<"\"", "x", "\"">>
    [] s = "\"x" -> <<"\"", "x">>
    [] s = "{\"a\":1}" -> <<"{", "\"", "a", "\"", ":", "1", "}">>
    [] s = "{\"a\":\"x\"}" -> <<"{", "\"", "a", "\"", ":", "\"", "x", "\"", "}">>
    [] s = "{\"a\"}" -> <<"{", "\"", "a", "\"", "}">>
    [] s = "{\"toString\":1}" -> <<"{", "\"", "t", "o", "S", "t", "r", "i", "n", "g", "\"", ":", "1", "}">>

CharsOf(s) == IF Len(s) = 0 THEN <<>> ELSE IF Len(s) = 1 THEN <<s>> ELSE Chars(s)

\* JSON.parse(str) on a text without white space, escape sequence, sign,
\* fraction or exponent: the value that starts at character i of cs and the
\* position after it, or a SyntaxError (Bad).
Bad == [ok |-> FALSE]
Good(v, i) == [ok |-> TRUE, v |-> v, i |-> i]
At(cs, i) == IF i <= Len(cs) THEN cs[i] ELSE ""
Word(cs, i, w) == \A j \in 1..Len(w) : At(cs, i + j - 1) = w[j]
IsDigit(c) == \E d \in 0..9 : Digit(d) = c
DigitValue(c) == CHOOSE d \in 0..9 : Digit(d) = c

RECURSIVE ParseDigits(_, _, _)
ParseDigits(cs, i, n) ==
  IF IsDigit(At(cs, i)) THEN ParseDigits(cs, i + 1, 10 * n + DigitValue(At(cs, i)))
  ELSE Good(JNum(n), i)

ParseNumber(cs, i) == IF cs[i] = "0" THEN Good(JNum(0), i + 1) ELSE ParseDigits(cs, i, 0)

\* The characters of a string literal after its opening quote.
RECURSIVE ParseChars(_, _, _)
ParseChars(cs, i, str) ==
  IF i > Len(cs) THEN Bad
  ELSE IF cs[i] = "\"" THEN Good(JStr(str), i + 1)
  ELSE ParseChars(cs, i + 1, str \o cs[i])

RECURSIVE ParseValue(_, _)
RECURSIVE ParseElements(_, _, _)
RECURSIVE ParseMembers(_, _, _)

ParseValue(cs, i) ==
  CASE Word(cs, i, <<"n", "u", "l", "l">>) -> Good(JNull, i + 4)
    [] Word(cs, i, <<"t", "r", "u", "e">>) -> Good(JBool(TRUE), i + 4)
    [] Word(cs, i, <<"f", "a", "l", "s", "e">>) -> Good(JBool(FALSE), i + 5)
    [] IsDigit(At(cs, i)) -> ParseNumber(cs, i)
    [] At(cs, i) = "\"" -> ParseChars(cs, i + 1, "")
    [] At(cs, i) = "[" ->
         IF At(cs, i + 1) = "]" THEN Good(JArr(<<>>), i + 2) ELSE ParseElements(cs, i + 1, <<>>)
    [] At(cs, i) = "{" ->
         IF At(cs, i + 1) = "}" THEN Good(EmptyObj, i + 2) ELSE ParseMembers(cs, i + 1, NoKeys)
    [] OTHER -> Bad

ParseElements(cs, i, acc) ==
  LET el == ParseValue(cs, i)
  IN IF ~el.ok THEN Bad
     ELSE IF At(cs, el.i) = "," THEN ParseElements(cs, el.i + 1, Append(acc, el.v))
     ELSE IF At(cs, el.i) = "]" THEN Good(JArr(Append(acc, el.v)), el.i + 1)
     ELSE Bad

ParseMembers(cs, i, m) ==
  LET key == IF At(cs, i) = "\"" THEN ParseChars(cs, i + 1, "") ELSE Bad
  IN IF ~key.ok THEN Bad
     ELSE IF At(cs, key.i) # ":" THEN Bad
     ELSE LET val == ParseValue(cs, key.i + 1)
          IN IF ~val.ok THEN Bad
             ELSE IF At(cs, val.i) = "," THEN ParseMembers(cs, val.i + 1, Put(m, key.v.s, val.v))
             ELSE IF At(cs, val.i) = "}" THEN Good(JObj(Put(m, key.v.s, val.v)), val.i + 1)
             ELSE Bad

JSONParse(str) ==
  LET cs == CharsOf(str)
      parsed == ParseValue(cs, 1)
  IN IF parsed.ok THEN (IF parsed.i = Len(cs) + 1 THEN parsed ELSE Bad) ELSE Bad

RunString(v) ==
  IF TypeOf(v) = "string" THEN Success(v) ELSE failure("expected string but found " \o TypeOf(v))

RunNumber(v) ==
  IF TypeOf(v) = "number" THEN Success(v) ELSE failure("expected number but found " \o TypeOf(v))

RunBoolean(v) ==
  IF TypeOf(v) = "boolean" THEN Success(v) ELSE failure("expected boolean but found " \o TypeOf(v))

RunNullP(v) ==
  IF v.t = "null" THEN Success(JNull) ELSE failure("expected null but found " \o TypeOf(v))

\* (the message's back quotes are written as single quotes: a TLA+ string
\* cannot hold a back quote)
RunUndefinedP(v) ==
  IF v.t = "undefined" THEN Success(JUndef) ELSE failure("expected 'undefined' " \o TypeOf(v))

\* A stringLiteral that accepts every string.
RunStringLiteralAnyString(str, v) ==
  IF v.t = "string" THEN Success(v)
  ELSE LET found == ToStr(v)
       IN IF found.ok
          THEN failure("expected '" \o str \o "' but found '" \o found.s \o "'")
          ELSE Throw(found.s)

\* v === str ? Success(v) : failure("expected '${str}' but found '${v}'") as a template literal
RunStringLiteral(str, v) ==
  IF v.t = "string" /\ v.s = str THEN Success(v)
  ELSE LET found == ToStr(v)
       IN IF found.ok
          THEN failure("expected '" \o str \o "' but found '" \o found.s \o "'")
          ELSE Throw(found.s)

\* traverse(list, f) of libs/result: the results in order, or the first failure.
RECURSIVE traverse(_, _, _)
traverse(list, decodeValue, acc) ==
  IF list = <<>> THEN Success(acc)
  ELSE LET decoded == Run(decodeValue, Head(list))
       IN IF decoded.r = "Success"
          THEN traverse(Tail(list), decodeValue, Append(acc, decoded.value))
          ELSE decoded

\* The function given to chain by the versioned decoder:
\* ({version}) => version 1: v1Decoder, 2: v2Decoder, default: fail(...)
FnVersioned(v1Decoder, v2Decoder) == [f |-> "versioned", v1 |-> v1Decoder, v2 |-> v2Decoder]

\* f(v): the decoder that the function given to chain returns.
ApplyChainFn(f, v) ==
  CASE f.f = "versioned" ->
         LET version == Get(v, "version")
         IN CASE version = JNum(1) -> f.v1
              [] version = JNum(2) -> f.v2
              [] OTHER -> D_fail("Unknown version: " \o ToStr(version).s)

\* result.chain((v) => f(v).run(u)) of libs/result: the function applied to
\* the value of a Success, a Failure left as it is.
chain(decoded, f, u) ==
  IF decoded.r = "Success" THEN Run(ApplyChainFn(f, decoded.value), u) ELSE decoded

\* A chain whose dependent decoder is run against the decoded value.
RunChainOnValue(d, f, u) ==
  LET decoded == Run(d, u)
  IN IF decoded.r = "Success" THEN chain(decoded, f, decoded.value) ELSE decoded

\* Decoder.chain(f).run: this.run(u).chain((v) => f(v).run(u))
RunChain(d, f, u) == chain(Run(d, u), f, u)

\* A stringified decoder whose JSON.parse is not inside a try.
RunStringifiedUnguarded(inner, v) ==
  LET str == RunString(v)
  IN IF str.r # "Success" THEN str
     ELSE LET parsed == JSONParse(str.value.s)
          IN IF parsed.ok THEN Run(inner, parsed.v)
             ELSE Throw("SyntaxError: Unexpected token")

\* string.chain(str => succeed(JSON.parse(str)) or fail("Invalid JSON string"))
\*       .chain(json => new Decoder(_ => inner.run(json)))
RunStringified(inner, v) ==
  LET str == RunString(v)
  IN IF str.r # "Success" THEN str
     ELSE LET parsed == JSONParse(str.value.s)
          IN IF parsed.ok THEN Run(inner, parsed.v)
             ELSE failure("Invalid JSON string")

RunArray(decodeValue, input) ==
  IF input.t # "array" THEN failure("expected array but found " \o TypeOf(input))
  ELSE LET list == traverse(input.e, decodeValue, <<>>)
       IN IF list.r = "Success" THEN Success(JArr(list.value)) ELSE list

\* The loop of object(decoders): i is the next field, result the fields decoded
\* so far, ret the value returned from inside the loop, ran the fields whose
\* decoder has been run.
ObjectInit == [i |-> 1, result |-> NoKeys, ret |-> NoRet, ran |-> <<>>]

\* The decoding of a field that takes an absent plain field for decoded.
FieldRunSkipsAbsent(fd, obj) ==
  IF fd.d.k = "DecoderOptional"
  THEN IF Get(obj, fd.name) = JUndef
       THEN Run(fd.d.decoder, Obj1("nothing", EmptyObj))
       ELSE Run(fd.d.decoder, Obj1("just", Get(obj, fd.name)))
  ELSE IF Get(obj, fd.name) = JUndef THEN Success(JUndef)
  ELSE Run(fd.d, Get(obj, fd.name))

\* The decoding of one declared field: an optional field runs on the presence
\* wrapper, a plain decoder on the field's raw value.
FieldRun(fd, obj) ==
  IF fd.d.k = "DecoderOptional"
  THEN IF Get(obj, fd.name) = JUndef
       THEN Run(fd.d.decoder, Obj1("nothing", EmptyObj))
       ELSE Run(fd.d.decoder, Obj1("just", Get(obj, fd.name)))
  ELSE Run(fd.d, Get(obj, fd.name))

\* The own keys of an object, copied under the keys decoded so far.
Spread(obj, m) ==
  IF obj.t # "object" THEN m
  ELSE [x \in DOMAIN obj.m \cup DOMAIN m |-> IF x \in DOMAIN m THEN m[x] ELSE obj.m[x]]

\* An iteration that copies the input's keys into the result.
ObjectIterSpreadsInput(decoders, obj, st) ==
  LET field == decoders[st.i].name
      decoded == FieldRun(decoders[st.i], obj)
  IN CASE decoded.r = "Success" ->
            [st EXCEPT !.i = @ + 1, !.result = Put(Spread(obj, @), field, decoded.value),
                       !.ran = Append(@, field)]
       [] decoded.r = "Failure" ->
            [st EXCEPT !.ret = Failure(<<field>> \o decoded.path, decoded.msg),
                       !.ran = Append(@, field)]
       [] decoded.r = "Throw" ->
            [st EXCEPT !.ret = decoded, !.ran = Append(@, field)]

\* One iteration of the for loop over the declared fields.
ObjectIter(decoders, obj, st) ==
  LET field == decoders[st.i].name
      decoded == FieldRun(decoders[st.i], obj)
  IN CASE decoded.r = "Success" ->
            [st EXCEPT !.i = @ + 1, !.result = Put(@, field, decoded.value),
                       !.ran = Append(@, field)]
       [] decoded.r = "Failure" ->
            [st EXCEPT !.ret = Failure(<<field>> \o decoded.path, decoded.msg),
                       !.ran = Append(@, field)]
       [] decoded.r = "Throw" ->
            [st EXCEPT !.ret = decoded, !.ran = Append(@, field)]

ObjectDone(decoders, st) == st.ret.r # "none" \/ st.i > Len(decoders)

ObjectReturn(st) == IF st.ret.r # "none" THEN st.ret ELSE Success(JObj(st.result))

\* typeof input !== "object" || input === null
ObjectRejects(input) == TypeOf(input) # "object" \/ input.t = "null"

\* The names that are array indices, in ascending order.
IndexNames == <<"0", "1", "2", "3">>

IsIndex(name) == \E k \in 1..Len(IndexNames) : IndexNames[k] = name

\* for (const field in def): the fields of a definition in the order for...in
\* enumerates them, the names that are array indices first, in ascending
\* order, then the other names in the order of their declaration.
ForInFields(def) ==
  LET indices == SelectSeq(IndexNames, LAMBDA n : \E i \in 1..Len(def) : def[i].name = n)
      named(n) == def[CHOOSE i \in 1..Len(def) : def[i].name = n]
  IN [k \in 1..Len(indices) |-> named(indices[k])]
       \o SelectSeq(def, LAMBDA fd : ~IsIndex(fd.name))

RECURSIVE ObjectLoop(_, _, _)
ObjectLoop(decoders, obj, st) ==
  IF ObjectDone(decoders, st) THEN st ELSE ObjectLoop(decoders, obj, ObjectIter(decoders, obj, st))

RunObject(decoders, input) ==
  IF ObjectRejects(input) THEN failure("expected object but found " \o TypeOf(input))
  ELSE ObjectReturn(ObjectLoop(ForInFields(decoders), input, ObjectInit))

\* The keys of an input in the order for...in enumerates them.  An object's
\* keys that are array indices come first, in ascending order, and its other
\* keys in insertion order; the inputs insert their keys in the order of
\* KeyOrder.  An array enumerates its indices.
KeyOrder == <<"0", "1", "version", "a", "b", "tag", "just", "nothing", "toString">>

RECURSIVE Indices(_)
Indices(n) == IF n = 0 THEN <<>> ELSE Append(Indices(n - 1), NatToStr(n - 1))

ForIn(input) ==
  CASE input.t = "object" -> SelectSeq(KeyOrder, LAMBDA key: key \in DOMAIN input.m)
    [] input.t = "array" -> Indices(Len(input.e))
    [] input.t = "Just" -> <<"value">>
    [] OTHER -> <<>>

\* input[field] for a key that for...in enumerated.
GetEnumerated(input, keys, i) ==
  IF input.t = "array" THEN input.e[i] ELSE Get(input, keys[i])

RECURSIVE ObjectMapLoop(_, _, _, _, _)
ObjectMapLoop(decoder, input, keys, i, result) ==
  IF i > Len(keys) THEN Success(JObj(result))
  ELSE LET decoded == Run(decoder, GetEnumerated(input, keys, i))
       IN CASE decoded.r = "Success" ->
                 ObjectMapLoop(decoder, input, keys, i + 1, Put(result, keys[i], decoded.value))
            [] decoded.r = "Failure" -> Failure(<<keys[i]>> \o decoded.path, decoded.msg)
            [] decoded.r = "Throw" -> decoded

\* An objectMap whose failure names the failing key only.
RunObjectMapKeyOnly(decoder, input) ==
  IF ObjectRejects(input) THEN failure("expected object but found " \o TypeOf(input))
  ELSE LET looped == ObjectMapLoop(decoder, input, ForIn(input), 1, NoKeys)
       IN IF looped.r = "Failure" THEN Failure(<<Head(looped.path)>>, looped.msg) ELSE looped

RunObjectMap(decoder, input) ==
  IF ObjectRejects(input) THEN failure("expected object but found " \o TypeOf(input))
  ELSE ObjectMapLoop(decoder, input, ForIn(input), 1, NoKeys)

RunPair(ldecode, rdecode, input) ==
  IF input.t # "array" THEN failure("expected array but found " \o TypeOf(input))
  ELSE IF Len(input.e) # 2
  THEN failure("expected array with 2 elements but it found " \o NatToStr(Len(input.e)))
  ELSE LET left == Run(ldecode, input.e[1])
           right == Run(rdecode, input.e[2])
       IN IF left.r # "Success" THEN left
          ELSE IF right.r # "Success" THEN right
          ELSE Success(JArr(<<left.value, right.value>>))

RunTriple(pA, pB, pC, input) ==
  IF input.t # "array" THEN failure("expected array but found " \o TypeOf(input))
  ELSE IF Len(input.e) # 3
  THEN failure("expected array with 3 elements but it found " \o NatToStr(Len(input.e)))
  ELSE LET a == Run(pA, input.e[1])
           b == Run(pB, input.e[2])
           c == Run(pC, input.e[3])
       IN IF a.r # "Success" THEN a
          ELSE IF b.r # "Success" THEN b
          ELSE IF c.r # "Success" THEN c
          ELSE Success(JArr(<<a.value, b.value, c.value>>))

\* errors.map(showPath).join("\n")
\* A join of the messages alone, the paths of the branches lost.
JoinMessages(errors) ==
  Join([i \in 1..Len(errors) |-> errors[i].msg], "\n")

JoinErrors(errors) ==
  Join([i \in 1..Len(errors) |-> showPath(errors[i].path, errors[i].msg)], "\n")

\* The loop of oneOf(decoders): i is the next decoder, errors the failures so
\* far, ret the value returned from inside the loop, ran the decoders run.
OneOfInit == [i |-> 1, errors |-> <<>>, ret |-> NoRet, ran |-> <<>>]

\* One iteration of the for loop over the decoders.
OneOfIter(decoders, input, st) ==
  LET decoded == Run(decoders[st.i], input)
  IN CASE decoded.r = "Success" -> [st EXCEPT !.ret = decoded, !.ran = Append(@, st.i)]
       [] decoded.r = "Failure" ->
            [st EXCEPT !.i = @ + 1, !.ran = Append(@, st.i),
                       !.errors = Append(@, [path |-> decoded.path, msg |-> decoded.msg])]
       [] decoded.r = "Throw" -> [st EXCEPT !.ret = decoded, !.ran = Append(@, st.i)]

OneOfDone(decoders, st) == st.ret.r # "none" \/ st.i > Len(decoders)

\* A return that reports the last failure alone.
OneOfReturnLastError(st) ==
  IF st.ret.r # "none" THEN st.ret
  ELSE IF st.errors = <<>> THEN failure("no decoders")
  ELSE Failure(st.errors[Len(st.errors)].path, st.errors[Len(st.errors)].msg)

OneOfReturn(st) ==
  IF st.ret.r # "none" THEN st.ret ELSE Failure(<<>>, JoinErrors(st.errors))

RECURSIVE OneOfLoop(_, _, _)
OneOfLoop(decoders, input, st) ==
  IF OneOfDone(decoders, st) THEN st ELSE OneOfLoop(decoders, input, OneOfIter(decoders, input, st))

RunOneOf(decoders, input) == OneOfReturn(OneOfLoop(decoders, input, OneOfInit))

\* Decoder.map(f): this.run(v).map(f)
RunMap(d, f, v) ==
  LET decoded == Run(d, v)
  IN IF decoded.r = "Success" THEN Success(ApplyFn(f, decoded.value)) ELSE decoded

\* decoder.run(input)
Run(d, v) ==
  CASE d.k = "string" -> RunString(v)
    [] d.k = "number" -> RunNumber(v)
    [] d.k = "boolean" -> RunBoolean(v)
    [] d.k = "any" -> Success(v)
    [] d.k = "nullP" -> RunNullP(v)
    [] d.k = "undefinedP" -> RunUndefinedP(v)
    [] d.k = "fail" -> failure(d.msg)
    [] d.k = "always" -> Success(d.v)
    [] d.k = "stringLiteral" -> RunStringLiteral(d.str, v)
    [] d.k = "array" -> RunArray(d.d, v)
    [] d.k = "object" -> RunObject(d.fields, v)
    [] d.k = "objectMap" -> RunObjectMap(d.d, v)
    [] d.k = "pair" -> RunPair(d.l, d.r, v)
    [] d.k = "triple" -> RunTriple(d.a, d.b, d.c, v)
    [] d.k = "oneOf" -> RunOneOf(d.ds, v)
    [] d.k = "map" -> RunMap(d.d, d.f, v)
    [] d.k = "stringified" -> RunStringified(d.d, v)
    [] d.k = "chain" -> RunChain(d.d, d.f, v)
    [] d.k = "recursive" ->
         IF d.frames = 0 THEN RangeError ELSE Run(D_top(d.name, d.frames - 1), v)

\* A rendered failure, the Failure of Result<string, T>.
Failed(error) == [r |-> "Failure", error |-> error]

\* decoded.mapFailure(showPath)
Rendered(decoded) ==
  IF decoded.r = "Failure" THEN Failed(showPath(decoded.path, decoded.msg)) ELSE decoded

\* decode(input, decoder) = decoder.run(input).mapFailure(showPath)
decode(input, decoder) == Rendered(Run(decoder, input))

\* ------------------------------------------------------ running an encoder

RECURSIVE Enc(_, _)

\* The outcome of an encoder: the Json it returns, or Throw.
Ok(json) == [r |-> "Ok", json |-> json]

\* The error thrown with a message built by a template literal around v.
ErrorAbout(prefix, v, suffix) ==
  LET shown == ToStr(v) IN Throw(IF shown.ok THEN prefix \o shown.s \o suffix ELSE shown.s)

\* input != str (loose inequality) for a literal str that is not numeric: a
\* string compares by value, an object or array by its string conversion, and
\* null, undefined, numbers and booleans differ from str.
LooseDiffers(input, str) ==
  CASE input.t = "string" -> [ok |-> TRUE, differs |-> input.s # str]
    [] input.t \in {"array", "object", "Just", "Nothing"} ->
         LET shown == ToStr(input)
         IN [ok |-> shown.ok, differs |-> shown.ok => shown.s # str]
    [] OTHER -> [ok |-> TRUE, differs |-> TRUE]

\* The function of an rmap applied to the value to encode: Ok(value) or Throw.
ApplyRFn(f, input) ==
  CASE f.f = "optional" ->
         Ok(IF input.t = "undefined" THEN Nothing ELSE Just(input))
    [] f.f = "optionalNullable" ->
         Ok(IF input.t \in {"null", "undefined"} THEN Nothing ELSE Just(input))
    [] f.f = "stringEnum" ->
         IF \E i \in 1..Len(f.strs) : input = JStr(f.strs[i]) THEN Ok(input)
         ELSE ErrorAbout("Cannot encode '", input, "'. Expected one of '" \o Join(f.strs, ", ") \o "'\"")
    [] f.f = "stringLiteral" ->
         LET ne == LooseDiffers(input, f.str)
         IN IF ~ne.ok THEN Throw(StrThrows.s)
            ELSE IF ne.differs
            THEN ErrorAbout("Cannot encode '", input, "'. Expected literal '" \o f.str \o "'\"")
            ELSE Ok(input)

\* Number.isFinite(input): a number that is not NaN, Infinity or -Infinity.
IsFinite(input) == input.t = "number" /\ ~IsNonFinite(input)

\* A number encoder without its guard.
EncNumberUnguarded(input) == Ok(input)

EncNumber(input) ==
  IF IsFinite(input) THEN Ok(input)
  ELSE ErrorAbout("Cannot encode non-finite number: ", input, "")

\* input.map(encoder.run)
RECURSIVE EncElems(_, _, _)
EncElems(encoder, elems, acc) ==
  IF elems = <<>> THEN Ok(JArr(acc))
  ELSE LET encoded == Enc(encoder, Head(elems))
       IN IF encoded.r = "Ok" THEN EncElems(encoder, Tail(elems), Append(acc, encoded.json))
          ELSE encoded

EncArray(encoder, input) ==
  IF input.t = "array" THEN EncElems(encoder, input.e, <<>>)
  ELSE Throw("TypeError: input.map is not a function")

\* input[field]: a TypeError on null and undefined.
Reads(input) == input.t \notin {"null", "undefined"}

\* An EncoderOptional field that writes what its encoder yields, wrapper
\* included, under the key.
EncOptionalFieldWritesWrapper(encoder, input, field, result) ==
  LET encoded == Enc(encoder.encoder, Get(input, field))
  IN IF encoded.r # "Ok" THEN encoded ELSE Ok(Put(result, field, encoded.json))

\* The field of an EncoderOptional: the key is written only for {just: V}.
EncOptionalField(encoder, input, field, result) ==
  LET encoded == Enc(encoder.encoder, Get(input, field))
  IN IF encoded.r # "Ok" THEN encoded
     ELSE IF TypeOf(encoded.json) # "object" \/ encoded.json.t = "null"
             \/ ~(HasKey(encoded.json, "nothing") \/ HasKey(encoded.json, "just"))
     THEN ErrorAbout("Invalid output of EncoderOptional: ", encoded.json, "")
     ELSE IF HasKey(encoded.json, "just")
     THEN Ok(Put(result, field, Get(encoded.json, "just")))
     ELSE Ok(result)

\* The field of a plain Encoder: the key is always written.
EncRequiredField(encoder, input, field, result) ==
  LET encoded == Enc(encoder, Get(input, field))
  IN IF encoded.r # "Ok" THEN encoded ELSE Ok(Put(result, field, encoded.json))

RECURSIVE EncObjectLoop(_, _, _, _)
EncObjectLoop(encoders, input, i, result) ==
  IF i > Len(encoders) THEN Ok(JObj(result))
  ELSE IF ~Reads(input) THEN Throw("TypeError: Cannot read properties of " \o input.t)
  ELSE LET step == IF encoders[i].e.k = "EncoderOptional"
                   THEN EncOptionalField(encoders[i].e, input, encoders[i].name, result)
                   ELSE EncRequiredField(encoders[i].e, input, encoders[i].name, result)
       IN IF step.r # "Ok" THEN step ELSE EncObjectLoop(encoders, input, i + 1, step.json)

EncObject(encoders, input) == EncObjectLoop(ForInFields(encoders), input, 1, NoKeys)

\* What an iterable yields: the elements of an array, the characters of a
\* string.
Yields(input) ==
  CASE input.t = "array" -> input.e
    [] input.t = "string" -> [i \in 1..Len(input.s) |-> JStr(CharsOf(input.s)[i])]

\* const [left, right] = input: the i-th value the input yields, or undefined.
Nth(input, i) == IF i <= Len(Yields(input)) THEN Yields(input)[i] ELSE JUndef

Iterable(input) ==
  CASE input.t \in {"array", "string"} -> TRUE
    [] input.t \in {"null", "undefined", "number", "boolean", "object", "Just", "Nothing"} -> FALSE

EncPair(sleft, sright, input) ==
  IF ~Iterable(input) THEN Throw("TypeError: input is not iterable")
  ELSE LET left == Enc(sleft, Nth(input, 1))
           right == Enc(sright, Nth(input, 2))
       IN IF left.r # "Ok" THEN left
          ELSE IF right.r # "Ok" THEN right
          ELSE Ok(JArr(<<left.json, right.json>>))

EncTriple(sA, sB, sC, input) ==
  IF ~Iterable(input) THEN Throw("TypeError: input is not iterable")
  ELSE LET a == Enc(sA, Nth(input, 1))
           b == Enc(sB, Nth(input, 2))
           c == Enc(sC, Nth(input, 3))
       IN IF a.r # "Ok" THEN a
          ELSE IF b.r # "Ok" THEN b
          ELSE IF c.r # "Ok" THEN c
          ELSE Ok(JArr(<<a.json, b.json, c.json>>))

\* input instanceof Nothing ? { nothing: {} } : { just: encoder.run(input.value) }
EncMaybe(encoder, input) ==
  IF input.t = "Nothing" THEN Ok(Obj1("nothing", EmptyObj))
  ELSE IF ~Reads(input) THEN Throw("TypeError: Cannot read properties of " \o input.t)
  ELSE LET encoded == Enc(encoder, Get(input, "value"))
       IN IF encoded.r # "Ok" THEN encoded ELSE Ok(Obj1("just", encoded.json))

EncNullable(encoder, input) == IF input.t = "null" THEN Ok(JNull) ELSE Enc(encoder, input)

\* Encoder.rmap(f): this.run(f(v))
EncRmap(e, f, input) ==
  LET mapped == ApplyRFn(f, input)
  IN IF mapped.r # "Ok" THEN mapped ELSE Enc(e, mapped.json)

\* matches(pattern, val): val is a non-null object that holds every key of the
\* pattern with a strictly equal value.
matches(pattern, val) ==
  IF TypeOf(val) # "object" \/ val.t = "null" THEN FALSE
  ELSE \A i \in 1..Len(pattern) :
         HasKey(val, pattern[i].key) /\ Get(val, pattern[i].key) = JStr(pattern[i].str)

\* vars.find((variant) => matches(variant.pattern, v)): the index found, 0 for
\* undefined.
find(vars, v) ==
  IF \E i \in 1..Len(vars) : matches(vars[i].pattern, v)
  THEN CHOOSE i \in 1..Len(vars) :
         matches(vars[i].pattern, v) /\ \A j \in 1..(i - 1) : ~matches(vars[j].pattern, v)
  ELSE 0

\* The encoder of discriminatedUnion: E.oneOf over the selector.
EncOneOf(vars, input) ==
  LET found == find(vars, input)
  IN IF found = 0 THEN ErrorAbout("Invalid discriminant in union type: '", input, "'")
     ELSE Enc(vars[found].schema.encoder, input)

\* encoder.run(input)
Enc(e, input) ==
  CASE e.k = "toAny" -> Ok(input)
    [] e.k = "number" -> EncNumber(input)
    [] e.k = "array" -> EncArray(e.e, input)
    [] e.k = "object" -> EncObject(e.fields, input)
    [] e.k = "pair" -> EncPair(e.l, e.r, input)
    [] e.k = "triple" -> EncTriple(e.a, e.b, e.c, input)
    [] e.k = "maybe" -> EncMaybe(e.e, input)
    [] e.k = "nullable" -> EncNullable(e.e, input)
    [] e.k = "rmap" -> EncRmap(e.e, e.f, input)
    [] e.k = "oneOf" -> EncOneOf(e.vars, input)
    [] e.k = "recursive" ->
         IF e.frames = 0 THEN RangeError ELSE Enc(E_top(e.name, e.frames - 1), input)
    [] e.k = "unpatched" -> Throw("A recursive encoder cannot immediately call itself.")

\* decode(schema, input) and encode(schema, input) of the schema module.
S_decode(schema, input) == decode(input, schema.decoder)
S_encode(schema, input) == Enc(schema.encoder, input)

\* ------------------------------------------------- the codecs under check

\* A decoder used without an encoder.
NoEncoder == [k |-> "none"]
DecoderOnly(decoder) == Schema(decoder, NoEncoder)

ObjEmpty == S_object(<<>>)
ObjA == S_object(<<SField("a", S_number)>>)
ObjAB == S_object(<<SField("a", S_number), SField("b", S_string)>>)
ObjInner == S_object(<<SField("b", S_number)>>)
ObjNested == S_object(<<SField("a", ObjInner)>>)
ObjNestedB == S_object(<<SField("a", ObjInner), SField("b", S_string)>>)
ObjOptional == S_object(<<SField("a", S_optional(S_number)), SField("b", S_string)>>)
ObjOptionalDefault ==
  S_object(<<SField("tag", S_string), SField("a", S_optionalDefault(JNum(0), S_number))>>)
ObjDefault == S_object(<<SField("a", S_optionalDefault(JNum(0), S_number))>>)
ObjOptionalNullable == S_object(<<SField("a", S_optionalNullable(S_string))>>)
ObjOptionalMaybe == S_object(<<SField("a", S_optionalMaybe(S_number))>>)
ObjOptionalInner == S_object(<<SField("a", S_optional(ObjInner))>>)
ObjNullableInner == S_object(<<SField("a", S_nullable(ObjInner))>>)
ObjEnum == S_object(<<SField("tag", S_stringEnum(<<"x", "y">>)), SField("a", S_maybe(S_number))>>)
ObjOptionalOnly == S_object(<<SField("a", S_optional(S_number))>>)
ObjOptionalLiteral == S_object(<<SField("a", S_optional(S_stringLiteral("x")))>>)
ObjLiteral == S_object(<<SField("tag", S_stringLiteral("x")), SField("a", S_number)>>)
ObjIndexed == S_object(<<SField("b", S_string), SField("1", S_number)>>)

\* Unions: variants told apart by tag; variants that share the tag and differ
\* in optional fields; variants that share the tag and differ in required
\* fields; variants that share the tag, the first with a second literal.
UnionDisjoint ==
  S_discriminatedUnion(<<variant(<<Lit("tag", "x"), Sub("a", S_number)>>),
                         variant(<<Lit("tag", "y"), Sub("b", S_string)>>)>>)
ObjUnion == S_object(<<SField("a", UnionDisjoint)>>)
UnionOptional ==
  S_discriminatedUnion(<<variant(<<Lit("tag", "x"), Sub("a", S_optional(S_number))>>),
                         variant(<<Lit("tag", "x"), Sub("b", S_optional(S_string))>>)>>)
UnionShared ==
  S_discriminatedUnion(<<variant(<<Lit("tag", "x"), Sub("a", S_number)>>),
                         variant(<<Lit("tag", "x"), Sub("b", S_string)>>)>>)

UnionLiteral ==
  S_discriminatedUnion(<<variant(<<Lit("tag", "x"), Lit("a", "x")>>),
                         variant(<<Lit("tag", "x")>>),
                         variant(<<Lit("tag", "x"), Sub("b", S_optional(S_string))>>)>>)

Schemas ==
  { S_string, S_number, S_boolean, S_json,
    S_array(S_number), S_array(S_stringLiteral("x")), S_array(ObjA), S_pair(S_string, S_number), S_triple(S_number, S_string, S_number),
    S_nullable(S_string), S_maybe(S_number), S_maybe(S_nullable(S_string)),
    S_stringLiteral("x"), S_stringEnum(<<"x", "y">>),
    ObjEmpty, ObjA, ObjAB, ObjNested, ObjNestedB, ObjOptional, ObjOptionalDefault, ObjDefault,
    ObjOptionalNullable, ObjOptionalMaybe, ObjOptionalOnly, ObjOptionalLiteral, ObjLiteral, ObjIndexed,
    UnionDisjoint, UnionOptional, UnionShared, UnionLiteral,
    ObjOptionalInner, ObjNullableInner, ObjEnum, ObjUnion, S_numberList, S_nullableSelf }

\* The versioned decoder: the version decides how the same input is decoded.
Versioned ==
  D_chain(D_object(<<Field("version", D_number)>>), FnVersioned(ObjA.decoder, ObjInner.decoder))

\* object({just: number}).map((v) => Just(v.just))
JustOfJust == D_map(D_object(<<Field("just", D_number)>>), FnJustOfJust)

Decoders ==
  { D_any, D_undefinedP, D_objectMap(D_number), D_objectMap(D_objectMap(D_number)),
    D_objectMap(D_stringLiteral("x")),
    D_oneOf(<<>>), D_oneOf(<<D_string, D_number>>), D_oneOf(<<D_any, D_stringLiteral("x")>>),
    D_oneOf(<<D_string, D_number, D_any>>), D_oneOf(<<D_stringLiteral("x"), D_any>>),
    D_oneOf(<<ObjAB.decoder, ObjNested.decoder, D_number>>),
    Versioned, JustOfJust, D_tree, D_stringified(D_number), D_stringified(D_json), D_stringified(ObjA.decoder),
    D_stringified(D_array(D_number)), D_stringified(D_stringLiteral("x")) }

Codecs == Schemas \cup {DecoderOnly(d) : d \in Decoders}

\* ------------------------------------------------------------- the inputs

Numbers == {JNum(n) : n \in 0..MaxNum}
Atoms == {JNull, JBool(TRUE), JStr("x"), JStr("y"), JStr("z")} \cup Numbers
NonFinites == {NonFinite("NaN"), NonFinite("Infinity"), NonFinite("-Infinity")}

\* Arrays of at most MaxArr elements.
Elems == {JNull, JStr("x"), JNum(MaxNum)}
RECURSIVE SeqsUpTo(_, _)
SeqsUpTo(S, n) ==
  IF n = 0 THEN {<<>>}
  ELSE LET shorter == SeqsUpTo(S, n - 1)
       IN shorter \cup {Append(q, x) : q \in {p \in shorter : Len(p) = n - 1}, x \in S}
Arrays == {JArr(e) : e \in SeqsUpTo(Elems, MaxArr)}

\* Nested pairs: the shape of a recursive list, conforming or not.
Lists0 == {JNull, JStr("x")}
Lists1 == {JArr(<<n, l>>) : n \in Numbers, l \in Lists0}
Lists2 == {JArr(<<n, l>>) : n \in Numbers, l \in Lists1}

\* An object whose key "toString" holds a JSON value.
Exotic == Obj1("toString", JNum(1))

\* Objects over the keys a, b and tag, each key absent or present.
Absent == [t |-> "absent"]
ValuesOfA ==
  {Absent, JNum(1), JStr("x"), JNull, EmptyObj, Exotic,
   Obj1("b", JNum(1)), Obj1("b", JStr("x"))}
ValuesOfB == {Absent, JNum(1), JStr("x")}
ValuesOfTag == {Absent, JStr("x"), JStr("y"), JNum(1), Exotic}
ObjectOf(a, b, tag) ==
  JObj([key \in {k \in {"a", "b", "tag"} :
                   (CASE k = "a" -> a [] k = "b" -> b [] k = "tag" -> tag).t # "absent"}
          |-> CASE key = "a" -> a [] key = "b" -> b [] key = "tag" -> tag])
Objects == {ObjectOf(a, b, tag) : a \in ValuesOfA, b \in ValuesOfB, tag \in ValuesOfTag}

\* The wire protocol of maybe, well formed or not.
Wire ==
  {Obj1("nothing", EmptyObj), Obj1("nothing", JArr(<<>>)), Obj1("nothing", JNum(1)),
   Obj1("nothing", Obj1("a", JNum(1))), Obj2("nothing", JNum(1), "just", JNum(1)),
   Obj2("nothing", EmptyObj, "just", JNum(1)), Exotic, JArr(<<Exotic>>)}
  \cup {Obj1("just", v) : v \in Atoms}

\* Objects with a key that is an array index.
Indexed ==
  {Obj1("1", JNum(1)), Obj1("1", JStr("x")),
   Obj2("1", JNum(1), "b", JStr("x")), Obj2("1", JStr("x"), "b", JNum(1))}

\* Arrays whose elements are objects, or that hold a value after the first
\* element that fails, and the arrays [1, "two", 3] and [1, 2, 3].
Listed ==
  {JArr(<<JStr("y"), Exotic>>), JArr(<<JStr("x"), Exotic>>),
   JArr(<<Obj1("a", JNum(1)), Obj1("a", JStr("x"))>>),
   JArr(<<Obj1("a", JStr("x")), Obj1("a", JNull)>>),
   JArr(<<JNum(1), JStr("two"), JNum(3)>>), JArr(<<JNum(1), JNum(2), JNum(3)>>)}

\* Strings that are JSON texts and strings that are not.
Texts == {JStr(str) : str \in {"1", "{", "two", "not json", "null", "true", "12", "01", "1x", "[]", "{}", "[1]", "[1,]", "[1,\"x\"]", "\"x\"", "\"x", "{\"a\":1}", "{\"a\":\"x\"}", "{\"a\"}", "{\"toString\":1}"}}

\* Objects that hold a version.
Versions ==
  {Obj2("version", JNum(1), "a", JNum(1)), Obj2("version", JNum(1), "b", JNum(1)),
   Obj2("version", JNum(2), "b", JNum(1)), Obj2("version", JNum(2), "a", JNum(1)),
   Obj2("version", JNum(0), "a", JNum(1)), Obj2("version", JStr("x"), "a", JNum(1)),
   Obj1("version", JNum(1))}

\* An object whose key a is present and holds undefined.
Undefineds == {Obj1("a", JUndef)}

\* Maybe values, as a caller gives them to encode.
Maybes ==
  {Nothing, Just(JNum(0)), Just(JNum(1)), Just(JStr("x")), Just(JNull), Just(NonFinite("NaN"))}

Inputs ==
  Atoms \cup NonFinites \cup Maybes \cup Undefineds \cup Versions \cup Texts \cup Arrays \cup Listed \cup Lists1 \cup Lists2 \cup Objects \cup Wire \cup Indexed

\* ------------------------------------------------------ the state machine

VARIABLES
  decoder,   \* the decoder in use (schema.decoder)
  encoder,   \* the encoder paired with it (schema.encoder), or NoEncoder
  input,     \* the raw input of the decode call
  pc,        \* the position of the caller
  loop,      \* the loop state of the outermost object / oneOf being run
  result,    \* the DecodeResult of decoder.run(input)
  rendered,  \* the Result<string, T> the decode entry point returns
  encoded,   \* the outcome of encode(schema, value) on the decoded value
  again,     \* the result of decoding the encoded value
  def,       \* the definition given to variant(def), the f given to recursive(f)
  built,     \* what variant(def) or recursive(f) returned or threw
  base,      \* the placeholder of recursive(f): what its run fields hold
  calls      \* the invocations of the placeholder so far, with their outcomes

\* The variables of the construction of a variant and of a recursive schema.
construction == <<def, built, base, calls>>

vars == <<decoder, encoder, input, pc, loop, result, rendered, encoded, again, construction>>

Idle == [i |-> 0, ret |-> NoRet, ran |-> <<>>]

Init ==
  /\ \E schema \in Codecs : decoder = schema.decoder /\ encoder = schema.encoder
  /\ input \in Inputs
  /\ pc = "ready"
  /\ loop = Idle
  /\ result = NoRet
  /\ rendered = NoRet
  /\ encoded = NoRet
  /\ again = NoRet
  /\ def = <<>>
  /\ built = NoRet
  /\ base = NoRet
  /\ calls = <<>>

\* decoder.run(input) returns: the entry point renders the result.
Return(decoded) ==
  /\ result' = decoded
  /\ rendered' = Rendered(decoded)
  /\ pc' = "decoded"

\* object(decoders) is entered with an input that passes its check.
BeginObject ==
  /\ pc = "ready" /\ decoder.k = "object" /\ ~ObjectRejects(input)
  /\ pc' = "object"
  /\ loop' = ObjectInit
  /\ UNCHANGED <<decoder, encoder, input, result, rendered, encoded, again, construction>>

\* One declared field is decoded.
ObjectStep ==
  /\ pc = "object" /\ ~ObjectDone(ForInFields(decoder.fields), loop)
  /\ loop' = ObjectIter(ForInFields(decoder.fields), input, loop)
  /\ UNCHANGED <<decoder, encoder, input, pc, result, rendered, encoded, again, construction>>

\* The loop over the fields is left.
ObjectEnd ==
  /\ pc = "object" /\ ObjectDone(ForInFields(decoder.fields), loop)
  /\ Return(ObjectReturn(loop))
  /\ UNCHANGED <<decoder, encoder, input, loop, encoded, again, construction>>

BeginOneOf ==
  /\ pc = "ready" /\ decoder.k = "oneOf"
  /\ pc' = "oneOf"
  /\ loop' = OneOfInit
  /\ UNCHANGED <<decoder, encoder, input, result, rendered, encoded, again, construction>>

\* One decoder of the list is tried.
OneOfStep ==
  /\ pc = "oneOf" /\ ~OneOfDone(decoder.ds, loop)
  /\ loop' = OneOfIter(decoder.ds, input, loop)
  /\ UNCHANGED <<decoder, encoder, input, pc, result, rendered, encoded, again, construction>>

OneOfEnd ==
  /\ pc = "oneOf" /\ OneOfDone(decoder.ds, loop)
  /\ Return(OneOfReturn(loop))
  /\ UNCHANGED <<decoder, encoder, input, loop, encoded, again, construction>>

\* Any other decoder, and object on an input it rejects, runs in one step.
RunDecoder ==
  /\ pc = "ready"
  /\ decoder.k # "oneOf"
  /\ decoder.k = "object" => ObjectRejects(input)
  /\ Return(Run(decoder, input))
  /\ UNCHANGED <<decoder, encoder, input, loop, encoded, again, construction>>

\* encode(schema, value) on the value the decode produced.
Encode ==
  /\ pc = "decoded" /\ result.r = "Success" /\ encoder.k # "none"
  /\ encoded' = Enc(encoder, result.value)
  /\ pc' = "encoded"
  /\ UNCHANGED <<decoder, encoder, input, loop, result, rendered, again, construction>>

\* decode(schema, encoded value)
DecodeAgain ==
  /\ pc \in {"encoded", "encodedValue"} /\ encoded.r = "Ok"
  /\ again' = decode(encoded.json, decoder)
  /\ pc' = IF pc = "encoded" THEN "done" ELSE "doneValue"
  /\ UNCHANGED <<decoder, encoder, input, loop, result, rendered, encoded, construction>>

\* encode(schema, value) on a value that a caller supplies.
EncodeValue ==
  /\ pc = "ready" /\ encoder.k # "none"
  /\ encoded' = Enc(encoder, input)
  /\ pc' = "encodedValue"
  /\ UNCHANGED <<decoder, encoder, input, loop, result, rendered, again, construction>>

Next ==
  \/ BeginObject
  \/ ObjectStep
  \/ ObjectEnd
  \/ BeginOneOf
  \/ OneOfStep
  \/ OneOfEnd
  \/ RunDecoder
  \/ Encode
  \/ DecodeAgain
  \/ EncodeValue

Spec == Init /\ [][Next]_vars

\* The definitions given to variant(def): at most MaxFields fields of different
\* names, each a literal string or a schema.
MaxFields == 3

FieldDefs ==
  {Lit("tag", "x"), Lit("tag", "y"), Lit("kind", "x"), Lit("a", ""),
   Sub("a", S_number), Sub("b", S_optional(S_string)), Sub("1", S_string)}

VariantDefs ==
  {d \in SeqsUpTo(FieldDefs, MaxFields) :
     \A i, j \in 1..Len(d) : d[i].name = d[j].name => i = j}

\* No schema is in use while a variant is constructed.
InitVariant ==
  /\ def \in VariantDefs
  /\ built = NoRet /\ base = NoRet /\ calls = <<>>
  /\ decoder = D_any /\ encoder = NoEncoder /\ input = JNull
  /\ pc = "variant"
  /\ loop = Idle
  /\ result = NoRet /\ rendered = NoRet /\ encoded = NoRet /\ again = NoRet

\* variant(def) returns a Variant or throws.
BuildVariant ==
  /\ pc = "variant"
  /\ built' = variant(def)
  /\ pc' = "built"
  /\ UNCHANGED <<decoder, encoder, input, loop, result, rendered, encoded, again, def, base, calls>>

NextVariant == BuildVariant

SpecVariant == InitVariant /\ [][NextVariant]_vars

\* ------------------------------------------- the construction by recursive

\* The invocations of the placeholder that are followed.
MaxCalls == 2

\* The functions f given to recursive: the list of numbers and the placeholder
\* itself given to the recursive of schemas, json given to that of decoders.
Authors == {"numberList", "json", "self"}

\* const base = ...: the placeholder as recursive() creates it.
baseDecoder == D_fail("A recursive decoder cannot immediately call itself.")
baseEncoder == E_unpatched
Placeholder(f) ==
  [decoder |-> baseDecoder, encoder |-> IF f = "json" THEN NoEncoder ELSE baseEncoder]

\* const top = f(base)
Top(f, placeholder) ==
  CASE f = "numberList" -> S_numberList
    [] f = "json" -> DecoderOnly(D_json)
    [] f = "self" -> Schema(placeholder.decoder, placeholder.encoder)

\* A recursive() that returns top and leaves the placeholder as it is.
Unpatched(placeholder, top) == placeholder

\* base.encoder.run = top.encoder.run; base.decoder.run = top.decoder.run
Patched(placeholder, top) == [decoder |-> top.decoder, encoder |-> top.encoder]

\* The values the placeholder is invoked on.
Probes ==
  Lists0 \cup Lists1 \cup {JNum(1), JArr(<<JNum(1), JArr(<<JNum(0), JNull>>)>>)}

InitRecursive ==
  /\ def \in Authors
  /\ base = Placeholder(def)
  /\ calls = <<>>
  /\ built = NoRet
  /\ decoder = D_any /\ encoder = NoEncoder /\ input = JNull
  /\ pc = "recursive"
  /\ loop = Idle
  /\ result = NoRet /\ rendered = NoRet /\ encoded = NoRet /\ again = NoRet

\* recursive(f) calls f(base).
CallF ==
  /\ pc = "recursive"
  /\ pc' = "f"
  /\ UNCHANGED <<decoder, encoder, input, loop, result, rendered, encoded, again, construction>>

\* An invocation of the placeholder that resolves it: the run of the
\* placeholder is assigned by the first call.
InvokeDecoderPatches ==
  /\ pc \in {"f", "returned"} /\ Len(calls) < MaxCalls
  /\ \E v \in Probes :
       calls' = Append(calls, [at |-> pc, kind |-> "decode", input |-> v,
                               outcome |-> Run(base.decoder, v)])
  /\ base' = Patched(base, Top(def, base))
  /\ UNCHANGED <<decoder, encoder, input, pc, loop, result, rendered, encoded, again,
                 def, built>>

\* base.decoder.run(v), by f while it runs or by anyone after recursive(f)
\* has returned.
InvokeDecoder ==
  /\ pc \in {"f", "returned"} /\ Len(calls) < MaxCalls
  /\ \E v \in Probes :
       calls' = Append(calls, [at |-> pc, kind |-> "decode", input |-> v,
                               outcome |-> Run(base.decoder, v)])
  /\ UNCHANGED <<decoder, encoder, input, pc, loop, result, rendered, encoded, again,
                 def, built, base>>

\* base.encoder.run(v)
InvokeEncoder ==
  /\ pc \in {"f", "returned"} /\ Len(calls) < MaxCalls
  /\ base.encoder.k # "none"
  /\ \E v \in Probes :
       calls' = Append(calls, [at |-> pc, kind |-> "encode", input |-> v,
                               outcome |-> Enc(base.encoder, v)])
  /\ UNCHANGED <<decoder, encoder, input, pc, loop, result, rendered, encoded, again,
                 def, built, base>>

\* f returns top.
ReturnF ==
  /\ pc = "f"
  /\ decoder' = Top(def, base).decoder
  /\ encoder' = Top(def, base).encoder
  /\ pc' = "patch"
  /\ UNCHANGED <<input, loop, result, rendered, encoded, again, construction>>

\* recursive(f) patches the placeholder and returns top.
Patch ==
  /\ pc = "patch"
  /\ base' = Patched(base, Schema(decoder, encoder))
  /\ built' = Schema(decoder, encoder)
  /\ pc' = "returned"
  /\ UNCHANGED <<decoder, encoder, input, loop, result, rendered, encoded, again, def, calls>>

NextRecursive ==
  \/ CallF
  \/ InvokeDecoder
  \/ InvokeEncoder
  \/ ReturnF
  \/ Patch

SpecRecursive == InitRecursive /\ [][NextRecursive]_vars

\* --------------------------------------------- callers that share a codec

\* The callers, the codecs they share and the payloads they bring.
Callers == {"a", "b"}
SharedCodecs ==
  {ObjAB, ObjOptional, UnionDisjoint, S_numberList,
   DecoderOnly(D_oneOf(<<D_string, D_number, D_any>>))}
Payloads ==
  {JStr("x"), Obj1("b", JStr("x")), Obj2("a", JNum(1), "b", JStr("x")),
   Obj2("tag", JStr("y"), "b", JStr("x")), JArr(<<JNum(1), JNull>>)}

\* The locals of a run (const result = {}, const errors = [], the loop
\* position) belong to the call that made them.
LocalsShared(c) == "a"

Locals(c) == c

\* The outermost decoder runs a loop that is followed step by step.
Looping(v) ==
  \/ decoder.k = "oneOf"
  \/ decoder.k = "object" /\ ~ObjectRejects(v)

\* Another caller is inside its run.
Overlaps(c) == \E o \in Callers \ {c} : calls[o].pc = "loop"

InitShared ==
  /\ \E schema \in SharedCodecs : decoder = schema.decoder /\ encoder = schema.encoder
  /\ calls \in [Callers -> [op : {"decode", "encode"}, input : Payloads, pc : {"ready"},
                             loop : {Idle}, outcome : {NoRet}, overlapped : {FALSE}]]
  /\ \A c \in Callers : calls[c].op = "encode" => encoder.k # "none"
  /\ def = <<>> /\ built = NoRet /\ base = NoRet
  /\ input = JNull
  /\ pc = "shared"
  /\ loop = Idle
  /\ result = NoRet /\ rendered = NoRet /\ encoded = NoRet /\ again = NoRet

\* A caller enters the loop of object or oneOf.
CallerBegin(c) ==
  /\ calls[c].pc = "ready" /\ calls[c].op = "decode" /\ Looping(calls[c].input)
  /\ calls' = [calls EXCEPT ![Locals(c)].loop =
                               IF decoder.k = "object" THEN ObjectInit ELSE OneOfInit,
                             ![c].pc = "loop",
                             ![c].overlapped = @ \/ Overlaps(c)]

LoopDone(c) ==
  IF decoder.k = "object" THEN ObjectDone(ForInFields(decoder.fields), calls[Locals(c)].loop)
  ELSE OneOfDone(decoder.ds, calls[Locals(c)].loop)

\* One iteration of the caller's loop.
CallerStep(c) ==
  /\ calls[c].pc = "loop" /\ ~LoopDone(c)
  /\ calls' = [calls EXCEPT ![Locals(c)].loop =
                               IF decoder.k = "object"
                               THEN ObjectIter(ForInFields(decoder.fields), calls[c].input, @)
                               ELSE OneOfIter(decoder.ds, calls[c].input, @),
                             ![c].overlapped = @ \/ Overlaps(c)]

\* The caller's loop is left and its run returns.
CallerEnd(c) ==
  /\ calls[c].pc = "loop" /\ LoopDone(c)
  /\ calls' = [calls EXCEPT ![c].outcome =
                               IF decoder.k = "object" THEN ObjectReturn(calls[Locals(c)].loop)
                               ELSE OneOfReturn(calls[Locals(c)].loop),
                             ![c].pc = "returned",
                             ![c].overlapped = @ \/ Overlaps(c)]

\* A run without a loop that is followed, in one step.
CallerRun(c) ==
  /\ calls[c].pc = "ready" /\ calls[c].op = "decode" /\ ~Looping(calls[c].input)
  /\ calls' = [calls EXCEPT ![c].outcome = Run(decoder, calls[c].input),
                             ![c].pc = "returned",
                             ![c].overlapped = @ \/ Overlaps(c)]

\* encoder.run(value), in one step.
CallerEncode(c) ==
  /\ calls[c].pc = "ready" /\ calls[c].op = "encode"
  /\ calls' = [calls EXCEPT ![c].outcome = Enc(encoder, calls[c].input),
                             ![c].pc = "returned",
                             ![c].overlapped = @ \/ Overlaps(c)]

NextShared ==
  /\ \E c \in Callers :
       \/ CallerBegin(c)
       \/ CallerStep(c)
       \/ CallerEnd(c)
       \/ CallerRun(c)
       \/ CallerEncode(c)
  /\ UNCHANGED <<decoder, encoder, input, pc, loop, result, rendered, encoded, again,
                 def, built, base>>

SpecShared == InitShared /\ [][NextShared]_vars

\* The stepwise run of the outermost loop returns what Run computes.
StepwiseIsRun == pc \in {"decoded", "encoded", "done"} => result = Run(decoder, input)

\* ------------------------------------------------------------ the claims

\* The outermost decoder has returned.
Decoded == pc \in {"decoded", "encoded", "done"}

\* The outcome of each decoder of the outermost oneOf, run alone on the input.
Alone == [i \in 1..Len(decoder.ds) |-> Run(decoder.ds[i], input)]

\* The outcome of each declared field of the outermost object, decoded alone,
\* the fields in the order of their declaration.
FieldAlone == [i \in 1..Len(decoder.fields) |-> FieldRun(decoder.fields[i], input)]

\* The same, the fields in the order for...in enumerates them.
Enumerated == ForInFields(decoder.fields)
EnumeratedAlone == [i \in 1..Len(Enumerated) |-> FieldRun(Enumerated[i], input)]

Lowest(S) == CHOOSE i \in S : \A j \in S : i <= j

UpTo(n) == [i \in 1..n |-> i]

\* C1: round trip.  For every schema built from the non-lossy combinators and
\* every raw input r with decode(schema, r) = Success(v), encode(schema, v)
\* returns a Json and decode(schema, encode(schema, v)) returns Success(v).
C1_RoundTrip ==
  /\ pc = "encoded" => encoded.r = "Ok"
  /\ pc = "done" => again = Success(result.value)

\* C2: decode failures are values, never exceptions.  For every decoder and
\* every JSON-like input, run(input) returns Success or Failure and never throws.
C2_NeverThrows == Decoded => result.r \in {"Success", "Failure"}

\* C3: the decode entry point renders a failure (path, message) as
\* message + ". When parsing: " + the path joined by "." (outermost first), an
\* empty path leaving the string to end in "When parsing: ", and passes a
\* Success through unchanged.
Dotted(path) ==
  CASE Len(path) = 0 -> ""
    [] Len(path) = 1 -> path[1]
    [] Len(path) = 2 -> path[1] \o "." \o path[2]

C3_Rendering ==
  Decoded =>
    /\ result.r = "Success" => rendered = result
    /\ result.r = "Failure" =>
         rendered = Failed(result.msg \o ". When parsing: " \o Dotted(result.path))
    /\ (decoder = D_string /\ input \in Numbers) =>
         rendered = Failed("expected string but found number. When parsing: ")

\* The witness of C3: a failure two fields deep is rendered outermost first.
C3_Witness ==
  /\ Decoded
  /\ result.r = "Failure" /\ result.path = <<"a", "b">>
  /\ rendered = Failed("expected number but found string. When parsing: a.b")

\* C4: object(fieldDefs) decodes the declared fields in declaration order and
\* stops at the first field whose decoder fails: the result is
\* Failure([field :: innerPath, innerMessage]) of that field and no later field
\* is decoded, so the path of nested objects lists the enclosing field names
\* outermost first (b failing inside a gives a.b).
C4_FirstFailureAborts ==
  (Decoded /\ decoder.k = "object" /\ ~ObjectRejects(input)) =>
    LET fields == decoder.fields
        failing == {i \in 1..Len(fields) : FieldAlone[i].r = "Failure"}
        first == Lowest(failing)
    IN /\ failing # {} =>
            /\ result = Failure(<<fields[first].name>> \o FieldAlone[first].path,
                                FieldAlone[first].msg)
            /\ loop.ran = [i \in 1..first |-> fields[i].name]
       /\ (decoder = ObjNested.decoder /\ Get(input, "a") = Obj1("b", JStr("x"))) =>
            rendered = Failed("expected number but found string. When parsing: a.b")

\* What object(fieldDefs) does (C4): it decodes the fields in the order for...in
\* enumerates them and stops at the first field whose decoder does not return
\* a Success, with that field's Failure under the field's name or with the
\* exception that field's decoder threw; no later field is decoded.
ObjectStopsAtFirstEnumerated ==
  (pc \in {"object", "decoded", "encoded", "done"} /\ decoder.k = "object"
     /\ ~ObjectRejects(input)) =>
    LET halted == {i \in 1..Len(Enumerated) : EnumeratedAlone[i].r # "Success"}
        first == Lowest(halted)
    IN /\ Len(loop.ran) <= Len(Enumerated)
       /\ loop.ran = [i \in 1..Len(loop.ran) |-> Enumerated[i].name]
       /\ (Decoded /\ halted = {}) => result.r = "Success"
       /\ (Decoded /\ halted # {}) =>
            /\ Len(loop.ran) = first
            /\ result = IF EnumeratedAlone[first].r = "Failure"
                        THEN Failure(<<Enumerated[first].name>> \o EnumeratedAlone[first].path,
                                     EnumeratedAlone[first].msg)
                        ELSE EnumeratedAlone[first]

\* C5: open objects.  On an input object with keys that fieldDefs does not
\* declare, object(fieldDefs) succeeds exactly when it succeeds on the input
\* restricted to the declared keys, with the same result, and the decoded value
\* holds only declared fields ({a:1,b:1} against object({a: number}) gives {a:1}).
Declared == {decoder.fields[i].name : i \in 1..Len(decoder.fields)}

Restricted(obj) == JObj([key \in DOMAIN obj.m \cap Declared |-> obj.m[key]])

C5_OpenObjects ==
  (Decoded /\ decoder.k = "object" /\ input.t = "object"
     /\ DOMAIN input.m \ Declared # {}) =>
    /\ result = Run(decoder, Restricted(input))
    /\ result.r = "Success" => DOMAIN result.value.m \subseteq Declared
    /\ (decoder = ObjA.decoder /\ Get(input, "a") \in Numbers) =>
         result = Success(Obj1("a", Get(input, "a")))

\* The witness of C5: {a: 1, b: 1} decodes against object({a: number}) as {a: 1}.
C5_Witness ==
  /\ Decoded /\ decoder = ObjA.decoder
  /\ input = Obj2("a", JNum(1), "b", JNum(1))
  /\ result = Success(Obj1("a", JNum(1)))

\* A field declared with a plain decoder that rejects undefined, absent from
\* the input object.
AbsentRequired(fd) ==
  /\ fd.d.k # "DecoderOptional"
  /\ Run(fd.d, JUndef).r = "Failure"
  /\ fd.name \notin DOMAIN input.m

\* C6, as stated: if a field declared with a plain decoder that rejects
\* undefined is absent from the input object, object(fieldDefs) fails and the
\* path of the failure starts with that field's name.  (Runs that end in an
\* exception are set aside here.)
C6_AsStated ==
  (Decoded /\ decoder.k = "object" /\ input.t = "object" /\ result.r # "Throw") =>
    \A i \in 1..Len(decoder.fields) :
      AbsentRequired(decoder.fields[i]) =>
        /\ result.r = "Failure"
        /\ Head(result.path) = decoder.fields[i].name

\* C6, amended: with such a field absent, object(fieldDefs) never succeeds, and
\* when every field that for...in enumerates before it decodes successfully
\* the result is a Failure whose path starts with that field's name ({} against
\* object({a: number}) fails with path [a]).
C6_RequiredFieldFailure ==
  (Decoded /\ decoder.k = "object" /\ input.t = "object") =>
    \A i \in 1..Len(Enumerated) :
      AbsentRequired(Enumerated[i]) =>
        /\ result.r # "Success"
        /\ (\A j \in 1..(i - 1) : EnumeratedAlone[j].r = "Success") =>
             /\ result.r = "Failure"
             /\ Head(result.path) = Enumerated[i].name
        /\ (decoder = ObjA.decoder /\ input = EmptyObj) =>
             rendered = Failed("expected number but found undefined. When parsing: a")

\* The witness of C6: b is absent and a, declared before it, decodes.
C6_Witness ==
  /\ Decoded /\ decoder = ObjAB.decoder
  /\ input = Obj1("a", JNum(1))
  /\ AbsentRequired(decoder.fields[2])
  /\ result.r = "Failure" /\ result.path = <<"b">>

\* C7: object(fieldDefs) requires a non-null, non-array object: for every
\* fieldDefs, the empty one included, it returns a Failure when the input is
\* null, a primitive or an array.
C7_RejectsNonObjects ==
  (Decoded /\ decoder.k = "object"
     /\ input.t \in {"null", "string", "number", "boolean", "array"}) =>
    result.r = "Failure"

\* C8: oneOf(decoders) tries the decoders in list order on the same input and
\* returns the Success of the lowest-index decoder that succeeds; the decoders
\* after the first success are not run; it fails only if every decoder fails.
C8_FirstSuccess ==
  (Decoded /\ decoder.k = "oneOf") =>
    LET succeed == {i \in 1..Len(decoder.ds) : Alone[i].r = "Success"}
        first == Lowest(succeed)
    IN /\ succeed # {} =>
            /\ result = Alone[first]
            /\ loop.ran = UpTo(first)
       /\ result.r = "Failure" => \A i \in 1..Len(decoder.ds) : Alone[i].r = "Failure"

\* What oneOf(decoders) does (C8): it runs the decoders in list order up to the
\* first that does not return a Failure, and returns that decoder's Success or
\* throws what it threw; it returns a Failure exactly when every decoder does.
OneOfStopsAtFirstNonFailure ==
  (pc \in {"oneOf", "decoded", "encoded", "done"} /\ decoder.k = "oneOf") =>
    LET settled == {i \in 1..Len(decoder.ds) : Alone[i].r # "Failure"}
        first == Lowest(settled)
    IN /\ Len(loop.ran) <= Len(decoder.ds)
       /\ loop.ran = UpTo(Len(loop.ran))
       /\ (Decoded /\ settled # {}) =>
            /\ result = Alone[first]
            /\ loop.ran = UpTo(first)
       /\ (Decoded /\ settled = {}) => result.r = "Failure"

\* C9: when every decoder of oneOf(decoders) fails, the result is one Failure
\* whose message is the rendered failure "<message>. When parsing: <path>" of
\* every branch, in list order, joined by newlines: each alternative's path and
\* message appears exactly once.
Line(i) == Alone[i].msg \o ". When parsing: " \o Dotted(Alone[i].path)

C9_AllFail ==
  (Decoded /\ decoder.k = "oneOf" /\ \A i \in 1..Len(decoder.ds) : Alone[i].r = "Failure") =>
    /\ result.r = "Failure"
    /\ result.path = <<>>
    /\ Len(loop.errors) = Len(decoder.ds)
    /\ \A i \in 1..Len(decoder.ds) :
         loop.errors[i] = [path |-> Alone[i].path, msg |-> Alone[i].msg]
    /\ result.msg = Join([i \in 1..Len(decoder.ds) |-> Line(i)], "\n")
    /\ Len(decoder.ds) = 0 => result.msg = ""
    /\ Len(decoder.ds) = 2 => result.msg = Line(1) \o "\n" \o Line(2)

\* The witness of C9: three alternatives fail at three different paths.
C9_Witness ==
  /\ Decoded /\ decoder.k = "oneOf"
  /\ input = Obj1("a", Obj1("b", JStr("x")))
  /\ result = Failure(<<>>,
       "expected number but found object. When parsing: a\n"
       \o "expected number but found string. When parsing: a.b\n"
       \o "expected number but found object. When parsing: ")

\* The outermost codec is a discriminated union: its variants, and the outcome
\* of each variant's object decoder run alone on the input.
IsUnion == encoder.k = "oneOf"
VariantAlone == [i \in 1..Len(encoder.vars) |-> Run(encoder.vars[i].schema.decoder, input)]

\* C10: discriminatedUnion(variants) decodes by trying the variants' object
\* decoders in declaration order and the first variant whose decode succeeds
\* wins: an input that satisfies two variants A and B decodes as A when A is
\* declared before B (A being the first variant that it satisfies).
C10_DeclarationOrder ==
  (Decoded /\ IsUnion) =>
    LET succeed == {i \in 1..Len(encoder.vars) : VariantAlone[i].r = "Success"}
    IN succeed # {} => result = VariantAlone[Lowest(succeed)]

\* What discriminatedUnion(variants) does (C10): the first variant, in
\* declaration order, whose decoder does not return a Failure decides: the
\* union decodes as that variant or throws what its decoder threw.
UnionStopsAtFirstNonFailure ==
  (Decoded /\ IsUnion) =>
    LET settled == {i \in 1..Len(encoder.vars) : VariantAlone[i].r # "Failure"}
    IN /\ settled # {} =>
            /\ result = VariantAlone[Lowest(settled)]
            /\ loop.ran = UpTo(Lowest(settled))
       /\ settled = {} => result.r = "Failure"

\* The variants of the outermost union whose pattern the supplied value matches.
Matching == {i \in 1..Len(encoder.vars) : matches(encoder.vars[i].pattern, input)}

\* The messages "Invalid discriminant in union type: '<value>'".
InvalidDiscriminant ==
  {"Invalid discriminant in union type: '" \o ToStr(v).s \o "'" : v \in {w \in Inputs : ToStr(w).ok}}

\* C11: the encoder of discriminatedUnion scans the variants in declaration
\* order and delegates to the encoder of the first variant whose pattern
\* matches the value (a non-null object that holds every pattern key with a
\* strictly equal value); when no pattern matches, null and non-objects
\* included, it throws an error "Invalid discriminant in union type" and
\* produces no Json.
C11_UnionEncode ==
  (pc = "encodedValue" /\ IsUnion) =>
    /\ \A i \in 1..Len(encoder.vars) :
         i \in Matching <=>
           /\ input.t \notin {"null", "undefined", "string", "number", "boolean"}
           /\ \A k \in 1..Len(encoder.vars[i].pattern) :
                Get(input, encoder.vars[i].pattern[k].key) = JStr(encoder.vars[i].pattern[k].str)
    /\ Matching # {} => encoded = Enc(encoder.vars[Lowest(Matching)].schema.encoder, input)
    /\ Matching = {} => (encoded.r = "Throw" /\ encoded.error \in InvalidDiscriminant)

\* What the encoder of discriminatedUnion does (C11): as claimed, except that
\* with no matching pattern the error thrown is the TypeError of the string
\* conversion when the value does not convert to a string.
UnionEncodeFirstMatch ==
  (pc = "encodedValue" /\ IsUnion) =>
    /\ Matching # {} => encoded = Enc(encoder.vars[Lowest(Matching)].schema.encoder, input)
    /\ Matching = {} =>
         /\ encoded.r = "Throw"
         /\ ToStr(input).ok => encoded.error \in InvalidDiscriminant
         /\ ~ToStr(input).ok => encoded.error = StrThrows.s

\* The fields of the definition whose value is a literal string.
Literals == {i \in 1..Len(def) : def[i].isLit}

\* C12: variant(def) splits its definition: pattern is exactly the map from
\* each field name with a literal string value to that string, and schema is
\* the object schema in which every literal field is a stringLiteral schema and
\* every other field keeps its schema; a definition with no literal field
\* throws at construction and never yields a Variant.
C12_VariantSplit ==
  pc = "built" =>
    /\ Literals = {} =>
         built = Throw("Invalid variant definition. No discriminant identified. Discriminant must be provided as a string")
    /\ Literals # {} =>
         /\ built.r = "Variant"
         /\ Len(built.pattern) = Cardinality(Literals)
         /\ {built.pattern[k] : k \in 1..Len(built.pattern)}
              = {[key |-> def[i].name, str |-> def[i].str] : i \in Literals}
         /\ built.schema.decoder.k = "object" /\ built.schema.encoder.k = "object"
         /\ Len(built.schema.decoder.fields) = Len(def)
         /\ Len(built.schema.encoder.fields) = Len(def)
         /\ \A i \in 1..Len(def) :
              LET given == IF def[i].isLit THEN S_stringLiteral(def[i].str) ELSE def[i].schema
              IN /\ built.schema.decoder.fields[i] = Field(def[i].name, given.decoder)
                 /\ built.schema.encoder.fields[i] = EField(def[i].name, given.encoder)

\* The witnesses of C12: a definition with a literal and a schema is split,
\* and a definition without a literal has thrown.
C12_Witness ==
  /\ pc = "built"
  /\ def = <<Sub("a", S_number), Lit("tag", "x"), Sub("b", S_optional(S_string))>>
  /\ built.r = "Variant"
  /\ built.pattern = <<[key |-> "tag", str |-> "x"]>>

\* The codecs with a field a declared optionalDefault(0, number), the first
\* beside a required field tag declared string.
WithDefault == {ObjDefault.decoder, ObjOptionalDefault.decoder}

\* The value is of the type of the schema: a is a number, tag a string.
OfTypeWithDefault(v) ==
  /\ v.t = "object"
  /\ Get(v, "a").t = "number"
  /\ decoder = ObjOptionalDefault.decoder => Get(v, "tag").t = "string"

Given == IF pc = "encodedValue" THEN input ELSE result.value

\* What the maybe-protocol encoder under an optional field yields.
Underlying(fd) == Enc(fd.e.encoder, Get(Given, fd.name))

\* The fields of an object encoder whose key the claim expects in the output.
Emitted(encoders) ==
  {i \in 1..Len(encoders) :
     \/ encoders[i].e.k # "EncoderOptional"
     \/ HasKey(Underlying(encoders[i]).json, "just")}

\* C14: the keys of what object(fieldDefs) encodes are exactly the required
\* fields and the optional fields whose underlying encoder yields {just: V};
\* such a field holds V itself and never the {just}/{nothing} wrapper, a field
\* yielding {nothing: {}} is omitted, and no undeclared property of the input
\* is emitted.
C14_ObjectKeys ==
  (pc \in {"encoded", "encodedValue", "done"} /\ encoder.k = "object" /\ encoded.r = "Ok") =>
    /\ encoded.json.t = "object"
    /\ DOMAIN encoded.json.m = {encoder.fields[i].name : i \in Emitted(encoder.fields)}
    /\ \A i \in 1..Len(encoder.fields) :
         LET fd == encoder.fields[i]
         IN IF fd.e.k = "EncoderOptional"
            THEN /\ Underlying(fd).r = "Ok"
                 /\ HasKey(Underlying(fd).json, "just")
                      => encoded.json.m[fd.name] = Get(Underlying(fd).json, "just")
                 /\ ~HasKey(Underlying(fd).json, "just")
                      => /\ Underlying(fd).json = Obj1("nothing", EmptyObj)
                         /\ fd.name \notin DOMAIN encoded.json.m
            ELSE encoded.json.m[fd.name] = Enc(fd.e, Get(Given, fd.name)).json

\* The witnesses of C14: an optional field that is present is written without
\* its wrapper beside a required field, undeclared properties of the value
\* being left out; an optional field that is undefined is omitted.
C14_Witness ==
  /\ pc = "encodedValue" /\ encoder = ObjOptional.encoder
  /\ input = ObjectOf(JNum(1), JStr("x"), JStr("y"))
  /\ encoded = Ok(Obj2("a", JNum(1), "b", JStr("x")))

C14_WitnessOmitted ==
  /\ pc = "encodedValue" /\ encoder = ObjOptional.encoder
  /\ input = Obj1("b", JStr("x"))
  /\ encoded = Ok(Obj1("b", JStr("x")))

\* C15: a field declared optionalNullable(d) inside object() accepts a field
\* that is absent or null: the object decodes with the field equal to null when
\* the key is missing and when the key holds null, and with d's decoded value
\* when the key holds a value d accepts.
C15_AbsentOrNull ==
  (Decoded /\ decoder = ObjOptionalNullable.decoder /\ input.t = "object") =>
    /\ "a" \notin DOMAIN input.m => result = Success(Obj1("a", JNull))
    /\ ("a" \in DOMAIN input.m /\ input.m["a"] = JNull) => result = Success(Obj1("a", JNull))
    /\ ("a" \in DOMAIN input.m /\ input.m["a"].t = "string")
         => result = Success(Obj1("a", input.m["a"]))

\* What the code does with a key that is present: the value is handed to d as
\* {just: value}, so that null decodes only if d accepts null.
OptionalNullableRunsPresent ==
  (Decoded /\ decoder = ObjOptionalNullable.decoder /\ input.t = "object"
     /\ "a" \in DOMAIN input.m) =>
    IF Run(D_string, input.m["a"]).r = "Success"
    THEN result = Success(Obj1("a", input.m["a"]))
    ELSE result.r = "Failure" /\ Head(result.path) = "a"

\* The elements of the input array decoded alone, and those that do not decode.
ElementAlone == [i \in 1..Len(input.e) |-> Run(decoder.d, input.e[i])]
NotDecoding == {i \in 1..Len(input.e) : ElementAlone[i].r # "Success"}

\* C16: array(d) requires an array and decodes its elements in index order: if
\* every element decodes it returns Success of the decoded elements, in the
\* same order and of the same length; otherwise it returns the failure of the
\* lowest-index failing element, decodes no later element and adds no element
\* index to the failure path.
C16_ArrayFailFast ==
  (Decoded /\ decoder.k = "array") =>
    IF input.t # "array"
    THEN result = failure("expected array but found " \o TypeOf(input))
    ELSE IF NotDecoding = {}
    THEN /\ result.r = "Success" /\ result.value.t = "array"
         /\ Len(result.value.e) = Len(input.e)
         /\ \A i \in 1..Len(input.e) : result.value.e[i] = ElementAlone[i].value
    ELSE /\ result.r = "Failure"
         /\ result = ElementAlone[Lowest(NotDecoding)]

\* What the code does when decoders may throw: the outcome is that of the
\* lowest-index element that does not return a Success, a Failure whose path
\* is the element's own or the exception it throws, whatever follows it.
ArrayStopsAtFirstNonSuccess ==
  (Decoded /\ decoder.k = "array" /\ input.t = "array" /\ NotDecoding # {}) =>
    result = ElementAlone[Lowest(NotDecoding)]

\* [1, "two", 3] fails at the second element with the path left empty, and an
\* element that would throw after the failing one is not decoded.
ArrayExamples ==
  /\ (Decoded /\ decoder = D_array(D_number) /\ input = JArr(<<JNum(1), JStr("two"), JNum(3)>>))
       => result = Failure(<<>>, "expected number but found string")
  /\ (Decoded /\ decoder = D_array(D_number) /\ input = JArr(<<JNum(1), JNum(2), JNum(3)>>))
       => result = Success(input)
  /\ (Decoded /\ decoder = D_array(D_stringLiteral("x")) /\ input = JArr(<<JStr("y"), Exotic>>))
       => result = Failure(<<>>, "expected 'x' but found 'y'")
  /\ (Decoded /\ decoder = D_array(ObjA.decoder)
         /\ input = JArr(<<Obj1("a", JNum(1)), Obj1("a", JStr("x"))>>))
       => result = Failure(<<"a">>, "expected number but found string")

\* C17: stringified(inner) lets no parse exception escape: on a string that is
\* not a JSON text it returns Failure with the message "Invalid JSON string",
\* on an input that is not a string the failure of the string decoder, and on
\* a JSON text exactly inner.run(parsed value).
C17_Stringified ==
  (Decoded /\ decoder.k = "stringified") =>
    IF input.t # "string" THEN result = Run(D_string, input) /\ result.r = "Failure"
    ELSE IF JSONParse(input.s).ok THEN result = Run(decoder.d, JSONParse(input.s).v)
    ELSE result = Failure(<<>>, "Invalid JSON string")

\* What JSON.parse makes of the texts under check.
ParseExamples ==
  /\ JSONParse("1") = Good(JNum(1), 2) /\ JSONParse("12") = Good(JNum(12), 3)
  /\ JSONParse("null") = Good(JNull, 5) /\ JSONParse("true") = Good(JBool(TRUE), 5)
  /\ JSONParse("\"x\"") = Good(JStr("x"), 4)
  /\ JSONParse("[]") = Good(JArr(<<>>), 3) /\ JSONParse("{}") = Good(EmptyObj, 3)
  /\ JSONParse("[1,\"x\"]") = Good(JArr(<<JNum(1), JStr("x")>>), 8)
  /\ JSONParse("{\"a\":1}") = Good(Obj1("a", JNum(1)), 8)
  /\ JSONParse("{\"toString\":1}") = Good(Exotic, 15)
  /\ \A str \in {"", "x", "two", "not json", "{", "01", "1x", "[1,]", "\"x", "{\"a\"}"} :
       ~JSONParse(str).ok

\* The witnesses of C17: "not json" is rejected, and the text of an object is
\* parsed and decoded by inner.
C17_Witness ==
  /\ Decoded /\ decoder = D_stringified(ObjA.decoder)
  /\ \/ input = JStr("not json") /\ result = Failure(<<>>, "Invalid JSON string")
     \/ input = JStr("{\"a\":1}") /\ result = Success(Obj1("a", JNum(1)))

\* C18: a placeholder invoked while f is still running ends at once with an
\* explicit error, the decoder placeholder returning
\* Failure("A recursive decoder cannot immediately call itself.") and the
\* encoder placeholder throwing; once recursive(f) has returned, every
\* invocation of the placeholder yields what the decoder or encoder returned
\* by f yields when invoked directly.
C18_RecursiveOrdering ==
  \A i \in 1..Len(calls) :
    LET call == calls[i]
    IN /\ (call.at = "f" /\ call.kind = "decode") =>
            call.outcome = Failure(<<>>, "A recursive decoder cannot immediately call itself.")
       /\ (call.at = "f" /\ call.kind = "encode") =>
            call.outcome = Throw("A recursive encoder cannot immediately call itself.")
       /\ (call.at = "returned" /\ call.kind = "decode") =>
            call.outcome = Run(built.decoder, call.input)
       /\ (call.at = "returned" /\ call.kind = "encode") =>
            call.outcome = Enc(built.encoder, call.input)

\* The witness of C18: the placeholder of the list of numbers was invoked
\* while f ran and rejected the call, and invoked after recursive(f) had
\* returned it decoded a list of two numbers.
C18_Witness ==
  /\ def = "numberList" /\ Len(calls) = 2
  /\ calls[1].at = "f" /\ calls[1].outcome.r = "Failure"
  /\ calls[2].at = "returned" /\ calls[2].kind = "decode"
  /\ calls[2].input = JArr(<<JNum(1), JArr(<<JNum(0), JNull>>)>>)
  /\ calls[2].outcome = Success(calls[2].input)

\* The values that conform to the recursive schemas: the lists of numbers
\* null | [number, list], the trees "x" | [tree, ...], the nullable(self) null.
RECURSIVE IsNumberList(_)
IsNumberList(v) ==
  \/ v.t = "null"
  \/ /\ v.t = "array" /\ Len(v.e) = 2
     /\ v.e[1].t = "number" /\ IsNumberList(v.e[2])

RECURSIVE IsTree(_)
IsTree(v) ==
  \/ v = JStr("x")
  \/ v.t = "array" /\ \A i \in 1..Len(v.e) : IsTree(v.e[i])

Conforms(v) ==
  CASE decoder = S_numberList.decoder -> IsNumberList(v)
    [] decoder = D_tree -> IsTree(v)
    [] decoder = S_nullableSelf.decoder -> v = JNull
    [] decoder = D_json -> TRUE

RecursiveDecoders == {S_numberList.decoder, D_tree, S_nullableSelf.decoder, D_json}

\* C19: decoding or encoding with a schema built by recursive(f) over a finite
\* nested structure within the stack bound terminates: decode returns Success
\* when every node conforms and a Failure, not an exception or a run without
\* end, when some leaf does not conform; the json decoder accepts every
\* finite JSON value.
C19_RecursiveTerminates ==
  decoder \in RecursiveDecoders =>
    /\ Decoded =>
         /\ result.r \in {"Success", "Failure"}
         /\ result.r = "Success" <=> Conforms(input)
         /\ decoder = D_json => result = Success(input)
    /\ (pc = "encodedValue" /\ encoder.k # "none" /\ Conforms(input)) => encoded.r = "Ok"
    /\ pc = "encoded" => encoded.r = "Ok"

\* What the code does: a schema whose placeholder is run only on a part of the
\* input (the list of numbers, json) returns Success on what conforms and a
\* Failure on the rest, and encodes what conforms.
RecursiveOnParts ==
  decoder \in {S_numberList.decoder, D_json} =>
    /\ Decoded =>
         /\ result.r = "Success" <=> Conforms(input)
         /\ result.r # "Success" => result.r = "Failure"
         /\ decoder = D_json => result = Success(input)
    /\ (pc = "encodedValue" /\ encoder.k # "none" /\ Conforms(input)) => encoded = Ok(input)
    /\ pc = "encoded" => encoded = Ok(result.value)

\* A placeholder run on the very input of the schema exhausts the stack on
\* every input that the rest of the schema does not accept.
RecursiveOnSelf ==
  decoder = S_nullableSelf.decoder =>
    /\ Decoded => result = IF input = JNull THEN Success(JNull) ELSE RangeError
    /\ pc = "encodedValue" => encoded = IF input = JNull THEN Ok(JNull) ELSE RangeError

\* C20: when several callers interleave decode and encode calls on the same
\* constructed decoder, encoder or schema, each on its own payload, every call
\* returns what it returns when it runs alone.
C20_SharedInstances ==
  \A c \in Callers :
    calls[c].pc = "returned" =>
      calls[c].outcome = IF calls[c].op = "decode" THEN Run(decoder, calls[c].input)
                         ELSE Enc(encoder, calls[c].input)

\* The witness of C20: two decodes of different payloads by the same object
\* decoder have run inside each other, one succeeding and one failing.
C20_Witness ==
  /\ decoder = ObjAB.decoder
  /\ \A c \in Callers :
       calls[c].pc = "returned" /\ calls[c].op = "decode" /\ calls[c].overlapped
  /\ calls["a"].outcome = Success(Obj2("a", JNum(1), "b", JStr("x")))
  /\ calls["b"].outcome = Failure(<<"a">>, "expected number but found undefined")

\* The artifacts of a recursive construction: the placeholder, what f returned
\* and what recursive(f) returned.
Artifacts == <<base, decoder, encoder, built>>

\* C21: no decode or encode call changes the run function of a decoder or an
\* encoder, nor the decoder or encoder of a schema; the only write to an
\* existing artifact is the assignment of the placeholder's run inside
\* recursive(), done once per placeholder and before recursive() returns.
C21_LifecycleFrame ==
  /\ [](pc = "returned" => base = [decoder |-> built.decoder, encoder |-> built.encoder])
  /\ [][/\ base' # base => (pc = "patch" /\ pc' = "returned")
        /\ calls' # calls => UNCHANGED Artifacts
        /\ pc = "returned" => UNCHANGED Artifacts]_vars

\* The witness of C21: the placeholder of the list of numbers has been patched
\* and has then been invoked to decode and to encode.
C21_Witness ==
  /\ def = "numberList" /\ pc = "returned" /\ Len(calls) = 2
  /\ base.decoder = S_numberList.decoder /\ base.encoder = S_numberList.encoder
  /\ calls[1].at = "returned" /\ calls[1].kind = "decode" /\ calls[1].outcome.r = "Success"
  /\ calls[2].at = "returned" /\ calls[2].kind = "encode" /\ calls[2].outcome.r = "Ok"

\* The calls of the callers, alone or interleaved, leave the codec in use as
\* it was built.
CallsLeaveCodecs == [][decoder' = decoder /\ encoder' = encoder]_vars

\* The enumeration under check, and the message of its decoder about a value
\* shown as shown: one line per literal, as oneOf renders them.
EnumXY == S_stringEnum(<<"x", "y">>)
EnumMessage(shown) ==
  "expected 'x' but found '" \o shown \o "'. When parsing: \n"
  \o "expected 'y' but found '" \o shown \o "'. When parsing: "

\* C22: the decoder of stringEnum(list) returns Success(s) exactly when the
\* input is a string equal to one of the literals, and otherwise a Failure
\* whose message names the rejected value; its encoder returns a member
\* unchanged and throws on anything else.
C22_EnumMembership ==
  decoder = EnumXY.decoder =>
    /\ Decoded =>
         IF input \in {JStr("x"), JStr("y")} THEN result = Success(input)
         ELSE /\ result.r = "Failure"
              /\ ToStr(input).ok
              /\ result = Failure(<<>>, EnumMessage(ToStr(input).s))
    /\ pc = "encodedValue" =>
         IF input \in {JStr("x"), JStr("y")} THEN encoded = Ok(input)
         ELSE encoded.r = "Throw"

\* What the code does: the claim, for the inputs that a template literal can
\* convert to a string; on the others the decoder throws.
EnumOnConvertible ==
  decoder = EnumXY.decoder =>
    /\ (Decoded /\ ToStr(input).ok) =>
         IF input \in {JStr("x"), JStr("y")} THEN result = Success(input)
         ELSE result = Failure(<<>>, EnumMessage(ToStr(input).s))
    /\ (Decoded /\ ~ToStr(input).ok) => result = Throw(StrThrows.s)
    /\ (Decoded /\ input = JStr("z")) => result = Failure(<<>>, EnumMessage("z"))
    /\ pc = "encodedValue" =>
         IF input \in {JStr("x"), JStr("y")} THEN encoded = Ok(input)
         ELSE encoded.r = "Throw"

\* C23: the number encoder returns every finite number unchanged and throws,
\* producing no Json, for NaN, Infinity and -Infinity; the string, boolean
\* and json encoders return every input unchanged and never throw.
C23_NumberGuard ==
  pc = "encodedValue" =>
    /\ (encoder = E_number /\ input \in Numbers) => encoded = Ok(input)
    /\ (encoder = E_number /\ input \in NonFinites) =>
         encoded = Throw("Cannot encode non-finite number: " \o input.nonFinite)
    /\ encoder \in {E_string, E_boolean, E_json} => encoded = Ok(input)

\* The witness of C23: the number encoder was given NaN and threw.
C23_Witness ==
  /\ pc = "encodedValue" /\ encoder = E_number
  /\ input = NonFinite("NaN")
  /\ encoded = Throw("Cannot encode non-finite number: NaN")

\* The string encoder was given Infinity and returned it.
C23_WitnessUnguarded ==
  /\ pc = "encodedValue" /\ encoder = E_string
  /\ input = NonFinite("Infinity")
  /\ encoded = Ok(input)

\* C24: d.chain(f) returns the Failure of d without invoking f, and for
\* Success(v) the result of f(v) run against the same original input;
\* d.map(g) leaves a Failure unchanged and maps Success(v) to Success(g(v)).
C24_ChainAndMap ==
  /\ (Decoded /\ decoder.k = "chain") =>
       LET first == Run(decoder.d, input)
       IN /\ first.r = "Failure" => result = first
          /\ first.r = "Success" => result = Run(ApplyChainFn(decoder.f, first.value), input)
  /\ (Decoded /\ decoder.k = "map") =>
       LET inner == Run(decoder.d, input)
       IN /\ inner.r = "Failure" => result = inner
          /\ inner.r = "Success" => result = Success(ApplyFn(decoder.f, inner.value))

\* The versioned decoder and the mapped decoder on inputs of each kind.
ChainExamples ==
  /\ (Decoded /\ decoder = Versioned) =>
       /\ input = Obj2("version", JNum(1), "a", JNum(1)) => result = Success(Obj1("a", JNum(1)))
       /\ input = Obj2("version", JNum(2), "b", JNum(1)) => result = Success(Obj1("b", JNum(1)))
       /\ input = Obj2("version", JNum(2), "a", JNum(1)) =>
            result = Failure(<<"b">>, "expected number but found undefined")
       /\ input = Obj2("version", JNum(0), "a", JNum(1)) =>
            result = Failure(<<>>, "Unknown version: 0")
       /\ input = Obj2("version", JStr("x"), "a", JNum(1)) =>
            result = Failure(<<"version">>, "expected number but found string")
       /\ input = JNull => result = Failure(<<>>, "expected object but found object")
  /\ (Decoded /\ decoder = JustOfJust) =>
       /\ input = Obj1("just", JNum(1)) => result = Success(Just(JNum(1)))
       /\ input = Obj1("just", JStr("x")) =>
            result = Failure(<<"just">>, "expected number but found string")

\* The witness of C24: the first decoder made {version: 1} of the input and
\* the decoder chosen for version 1 decoded the field a of the original input.
C24_Witness ==
  /\ Decoded /\ decoder = Versioned
  /\ input = Obj2("version", JNum(1), "a", JNum(1))
  /\ Run(decoder.d, input) = Success(Obj1("version", JNum(1)))
  /\ result = Success(Obj1("a", JNum(1)))

\* The maybe codecs of the model and the two shapes of the wire protocol, an
\* object being open to other keys.
IsMaybe == \E s \in {S_number, S_nullable(S_string)} : decoder = S_maybe(s).decoder
NothingShape(v) == v.t = "object" /\ Get(v, "nothing") = EmptyObj
JustShape(v) == v.t = "object" /\ "just" \in DOMAIN v.m
Payload == decoder.ds[2].d.fields[1].d

\* C25: the maybe(e) encoder maps Nothing to {nothing: {}} and Just(v) to
\* {just: e.run(v)}; the maybe(d) decoder maps {nothing: {}} to Nothing and
\* {just: V} to Just(d's value for V) and fails on an input of neither shape;
\* decoding the encoding of a Maybe whose payload round-trips gives it back.
C25_MaybeWire ==
  IsMaybe =>
    /\ (pc \in {"encodedValue", "doneValue"} /\ input \in Maybes) =>
         /\ input = Nothing => encoded = Ok(Obj1("nothing", EmptyObj))
         /\ input # Nothing =>
              LET payload == Enc(encoder.e, input.value)
              IN encoded = IF payload.r = "Ok" THEN Ok(Obj1("just", payload.json)) ELSE payload
    /\ Decoded =>
         /\ NothingShape(input) => result = Success(Nothing)
         /\ (JustShape(input) /\ ~NothingShape(input)
               /\ Run(Payload, Get(input, "just")).r = "Success") =>
              result = Success(Just(Run(Payload, Get(input, "just")).value))
         /\ (~NothingShape(input) /\ ~JustShape(input)) => result.r = "Failure"
    /\ (pc = "doneValue" /\ input \in Maybes) =>
         ((input = Nothing \/ decode(Enc(encoder.e, input.value).json, Payload) = Success(input.value))
            => again = Success(input))

\* What the code does: the first branch takes every object whose key nothing
\* holds an object, an array included, whatever the other keys hold; the
\* second branch decides for the other inputs.
MaybeDecodes ==
  (IsMaybe /\ Decoded) =>
    LET nothing == Get(input, "nothing")
        just == Run(Payload, Get(input, "just"))
    IN IF TypeOf(input) = "object" /\ input # JNull /\ TypeOf(nothing) = "object" /\ nothing # JNull
       THEN result = Success(Nothing)
       ELSE IF TypeOf(input) = "object" /\ input # JNull /\ just.r = "Success"
       THEN result = Success(Just(just.value))
       ELSE result.r = "Failure" /\ result.path = <<>>

\* The encoder half and the round trip of C25, which hold.
MaybeRoundTrip ==
  IsMaybe =>
    /\ (pc \in {"encodedValue", "doneValue"} /\ input \in Maybes) =>
         /\ input = Nothing => encoded = Ok(Obj1("nothing", EmptyObj))
         /\ input # Nothing =>
              LET payload == Enc(encoder.e, input.value)
              IN encoded = IF payload.r = "Ok" THEN Ok(Obj1("just", payload.json)) ELSE payload
    /\ (pc = "doneValue" /\ input \in Maybes) =>
         ((input = Nothing \/ decode(Enc(encoder.e, input.value).json, Payload) = Success(input.value))
            => again = Success(input))

\* The objects of the model whose one field a is optional, the decoder run on
\* the presence wrapper, the decoder d given to the flavor, and what the
\* flavor makes of an absent key and of a present key that d decodes as v.
OptionalObjects ==
  {ObjOptionalOnly, ObjOptionalNullable, ObjOptionalMaybe, ObjDefault, ObjOptionalLiteral}
IsOptionalObject == \E s \in OptionalObjects : decoder = s.decoder
Flavor == decoder.fields[1].d.decoder
Given_d == IF Flavor.k = "oneOf" THEN Flavor.ds[2].d.fields[1].d ELSE Flavor.d.ds[2].d.fields[1].d
WhenAbsent ==
  CASE Flavor.k = "oneOf" -> Nothing
    [] Flavor.f.f = "asNullable" -> JNull
    [] Flavor.f.f = "orUndefined" -> JUndef
    [] Flavor.f.f = "withDefault" -> Flavor.f.def
WhenPresent(v) == IF Flavor.k = "oneOf" THEN Just(v) ELSE v

\* C26: inside object(), an absent key (input[key] is undefined) gives
\* undefined, null, Nothing and def under optional, optionalNullable,
\* optionalMaybe and optionalDefault; a key present with a value d accepts as
\* v gives v, v, Just(v) and v; a key present with a value d rejects makes the
\* object decode fail.
C26_OptionalFlavors ==
  (Decoded /\ IsOptionalObject /\ input.t = "object") =>
    LET V == Get(input, "a")
        inner == Run(Given_d, V)
    IN IF V = JUndef THEN result = Success(Obj1("a", WhenAbsent))
       ELSE IF inner.r = "Success" THEN result = Success(Obj1("a", WhenPresent(inner.value)))
       ELSE result.r = "Failure"

\* What the code does: a d that throws makes the object throw; on the other
\* inputs C26 holds, a key that holds undefined counting as absent.
OptionalFlavorsOnDefined ==
  (Decoded /\ IsOptionalObject /\ input.t = "object") =>
    LET V == Get(input, "a")
        inner == Run(Given_d, V)
    IN IF V = JUndef THEN result = Success(Obj1("a", WhenAbsent))
       ELSE IF inner.r = "Success" THEN result = Success(Obj1("a", WhenPresent(inner.value)))
       ELSE IF inner.r = "Throw" THEN result = inner
       ELSE result.r = "Failure" /\ result.path = <<"a">>

\* The keys of the input in the order for...in enumerates them, the outcome of
\* the decoder given to objectMap on the value of each, alone, and the keys
\* whose value does not decode.
MapKeys == ForIn(input)
ValueAlone == [i \in 1..Len(MapKeys) |-> Run(decoder.d, GetEnumerated(input, MapKeys, i))]
NotDecoded == {i \in 1..Len(MapKeys) : ValueAlone[i].r # "Success"}
FirstNotDecoded == CHOOSE i \in NotDecoded : \A j \in NotDecoded : i <= j

\* C27 as stated: objectMap(decoder) requires a non-null object, decodes the
\* value of every key with the same decoder and aborts at the first key whose
\* value fails, with a failure whose path is the single name of that key.
C27_AsStated ==
  (Decoded /\ decoder.k = "objectMap") =>
    IF ObjectRejects(input) THEN result.r = "Failure"
    ELSE IF NotDecoded = {}
    THEN /\ result.r = "Success"
         /\ \A i \in 1..Len(MapKeys) : Get(result.value, MapKeys[i]) = ValueAlone[i].value
    ELSE result.r = "Failure" /\ result.path = <<MapKeys[FirstNotDecoded]>>

\* C27: objectMap(decoder) rejects what is not a non-null object; otherwise
\* it decodes the values of the keys in for...in order with the same decoder
\* and stops at the first value that does not decode, never succeeding; the
\* Failure of that value comes back with the key put before its path.
C27_ObjectMapPath ==
  (Decoded /\ decoder.k = "objectMap") =>
    IF ObjectRejects(input) THEN result = failure("expected object but found " \o TypeOf(input))
    ELSE IF NotDecoded = {}
    THEN /\ result.r = "Success"
         /\ DOMAIN result.value.m = {MapKeys[i] : i \in 1..Len(MapKeys)}
         /\ \A i \in 1..Len(MapKeys) : Get(result.value, MapKeys[i]) = ValueAlone[i].value
    ELSE LET first == ValueAlone[FirstNotDecoded]
         IN /\ result.r # "Success"
            /\ first.r = "Failure" =>
                 result = Failure(<<MapKeys[FirstNotDecoded]>> \o first.path, first.msg)

\* The witness of C27: the value of the key a failed at its own key b, and
\* the path names both.
C27_Witness ==
  /\ Decoded /\ decoder = D_objectMap(D_objectMap(D_number))
  /\ input = Obj1("a", Obj1("b", JStr("x")))
  /\ result = Failure(<<"a", "b">>, "expected number but found string")

\* The witness of C27 for a value that fails with an empty path: the path is
\* the single name of the key, the first of two that fail.
C27_WitnessSingle ==
  /\ Decoded /\ decoder = D_objectMap(D_number)
  /\ input = Obj2("a", JStr("x"), "b", JStr("x"))
  /\ result = Failure(<<"a">>, "expected number but found string")

\* The variant through which the input decoded: the first whose decoder accepts
\* it; and the variant the encoder selects for the decoded value.
DecodedThrough == Lowest({i \in 1..Len(encoder.vars) : VariantAlone[i].r = "Success"})
EncodedThrough == find(encoder.vars, result.value)

\* C28: an input that decodes through variant i of a discriminatedUnion, the
\* first variant whose decoder accepts it, gives a value for which the encoder
\* selects the same variant i, so the value is encoded by the encoder paired
\* with the decoder that produced it.
C28_VariantAgreement ==
  (pc \in {"encoded", "done"} /\ IsUnion) =>
    /\ EncodedThrough = DecodedThrough
    /\ encoded = Enc(encoder.vars[DecodedThrough].schema.encoder, result.value)

\* What the code does: the variants agree when no two variants share a
\* pattern; the encoder goes by the literal fields alone and takes the first
\* variant that shares the pattern of the one that decoded.
VariantAgreementOnPatterns ==
  (pc \in {"encoded", "done"} /\ IsUnion) =>
    /\ EncodedThrough <= DecodedThrough
    /\ matches(encoder.vars[DecodedThrough].pattern, result.value)
    /\ encoder = UnionDisjoint.encoder => EncodedThrough = DecodedThrough
    /\ encoded = Enc(encoder.vars[EncodedThrough].schema.encoder, result.value)

\* C29: a value that a discriminatedUnion decoded holds, under every key of
\* the pattern of the variant that produced it, the string of the pattern, so
\* the encoder finds a variant for it and encoding it never throws "Invalid
\* discriminant in union type".
C29_DecodedMatches ==
  (Decoded /\ IsUnion /\ result.r = "Success") =>
    /\ \A k \in 1..Len(encoder.vars[DecodedThrough].pattern) :
         LET literal == encoder.vars[DecodedThrough].pattern[k]
         IN HasKey(result.value, literal.key) /\ Get(result.value, literal.key) = JStr(literal.str)
    /\ EncodedThrough # 0
    /\ pc \in {"encoded", "done"} =>
         /\ encoded # ErrorAbout("Invalid discriminant in union type: '", result.value, "'")
         /\ encoded = Enc(encoder.vars[EncodedThrough].schema.encoder, result.value)

\* The witness of C29: a union decoded {tag: "y", b: "x"} through its second
\* variant, and the encoder found that variant for the value and encoded it.
C29_Witness ==
  /\ pc = "encoded" /\ encoder = UnionDisjoint.encoder
  /\ input = Obj2("tag", JStr("y"), "b", JStr("x"))
  /\ DecodedThrough = 2 /\ EncodedThrough = 2
  /\ encoded = Ok(input)

\* The witness of C29 for an encode that throws: the value matches the pattern
\* of the first variant, whose number encoder throws on the missing a.
C29_WitnessThrows ==
  /\ pc = "encoded" /\ encoder = UnionShared.encoder
  /\ input = Obj2("tag", JStr("x"), "b", JStr("x"))
  /\ EncodedThrough = 1
  /\ encoded = Throw("Cannot encode non-finite number: undefined")

\* The field of the outermost object at which the decode failed, whether its
\* decoder is built on oneOf (nullable, maybe, stringEnum, discriminatedUnion
\* are oneOf decoders, an optional field runs maybe), and for an optional
\* field the two branches of its maybe, each run alone on the wrapper.
FailedField == decoder.fields[CHOOSE i \in 1..Len(decoder.fields) : decoder.fields[i].name = Head(result.path)]
HoldsOneOf(fd) == fd.d.k \in {"oneOf", "DecoderOptional"}
MaybeOf(fd) == IF fd.d.decoder.k = "oneOf" THEN fd.d.decoder ELSE fd.d.decoder.d
BranchAlone(fd, i) == Run(MaybeOf(fd).ds[i], Obj1("just", Get(input, fd.name)))

\* C30: a failure of oneOf carries an empty path, the paths of the branches
\* being in the message only; the enclosing object reports a failure below a
\* field built on oneOf with a path that ends at that field, and for an
\* optional field the message holds the failures of the two branches with
\* the segments "nothing" and "just"; the empty oneOf fails on every input
\* with an empty message.
C30_OneOfPath ==
  /\ (Decoded /\ decoder.k = "oneOf" /\ result.r = "Failure") =>
       /\ result.path = <<>>
       /\ \A i \in 1..Len(decoder.ds) : Alone[i].r = "Failure"
       /\ result.msg = Join([i \in 1..Len(decoder.ds) |-> showPath(Alone[i].path, Alone[i].msg)], "\n")
  /\ (Decoded /\ decoder = D_oneOf(<<>>)) => result = Failure(<<>>, "")
  /\ (Decoded /\ decoder.k = "object" /\ result.r = "Failure" /\ ~ObjectRejects(input)
        /\ HoldsOneOf(FailedField)) =>
       /\ result.path = <<FailedField.name>>
       /\ FailedField.d.k = "DecoderOptional" =>
            LET nothing == BranchAlone(FailedField, 1)
                just == BranchAlone(FailedField, 2)
            IN /\ nothing.r = "Failure" /\ nothing.path = <<"nothing">>
               /\ just.r = "Failure" /\ Head(just.path) = "just"
               /\ result.msg = showPath(nothing.path, nothing.msg) \o "\n"
                                  \o showPath(just.path, just.msg)

\* The witness of C30: the optional field a holds an object that fails at its
\* own field b; the path ends at a, and b is in the message, after just.
C30_Witness ==
  /\ Decoded /\ decoder = ObjOptionalInner.decoder
  /\ input = Obj1("a", Obj1("b", JStr("x")))
  /\ result = Failure(<<"a">>,
       "expected object but found undefined. When parsing: nothing\n"
       \o "expected number but found string. When parsing: just.b")

\* The witness of C30 for a field that holds a oneOf which is not optional.
C30_WitnessNullable ==
  /\ Decoded /\ decoder = ObjNullableInner.decoder
  /\ input = Obj1("a", Obj1("b", JStr("x")))
  /\ result = Failure(<<"a">>,
       "expected null but found object. When parsing: \n"
       \o "expected number but found string. When parsing: b")

====
